---- MODULE Spec2Model ----
(***************************************************************************)
(* TestCrush: the assembly handler (testcrush/asm.py) and the A0           *)
(* compaction driver (testcrush/a0.py).                                    *)
(*                                                                         *)
(* Text is a sequence of one-character strings.  A file on disk is the     *)
(* flat character sequence of its content; Python's line iteration and     *)
(* str.strip / re.sub(r'\s+', ' ', .) / str.split are the operators        *)
(* SplitLines, Strip, Collapse and FirstToken below.                       *)
(*                                                                         *)
(* A Codeline is a Python object: the objects one handler creates are the  *)
(* entries of its `code` sequence, and an object's identity is its index   *)
(* there.  candidates, asm_file_changelog and the driver's                 *)
(* all_instructions hold identities, so that a `lineno` update is seen     *)
(* through every reference, as in Python.                                  *)
(***************************************************************************)
EXTENDS Integers, Sequences, FiniteSets, TLC

VARIABLES
    handlers,   \* A0.assembly_sources: sequence of AssemblyHandler objects
    pops,       \* whether the caller pops Codelines: get_random_candidate(True)
    hist,       \* history of the last handler operation (for the properties)
    pc,         \* where the driver is: pre_run, run, loop, done, exit
    zoix_compilation_args,  \* whether HDL compilation instructions are configured
    all_instructions,       \* A0.all_instructions: (asm_id, Codeline) pairs
    initial_stl_stats,      \* what pre_run returned: (TaT, coverage)
    old_stl_stats,          \* the anchor of run()
    iteration_stats,        \* the statistics row being filled
    stats,      \* the rows written to the statistics CSV, after its header
    trial,      \* history of the last iteration of run() (for the properties)
    a1xx_settings,          \* A1xx: policy, compaction policy, segment dimension
    all_code_chunks,        \* A1xx.all_code_chunks: (asm_id, block) pairs
    block_i,                \* A1xx.run: the index i of the block being processed
    candidate_codelines,    \* A1xx.run: the Codelines of the block out of the file
    trials_left,            \* A1xx.run: iterations left of the loop over the block
    instructions,      \* logic_simulate: how many instructions it is called with
    executed,           \* history of the calls of execute (for the properties)
    exit_success,       \* logic_simulate: a line matched the success regexp
    tat_success,        \* logic_simulate: a test application time was captured
    tat_value,          \* logic_simulate: the list the captured times go to
    simulation_status,  \* logic_simulate: the status it returns
    allow,              \* fault_simulate: the allow_regexs it is called with
    fault_simulation_status,     \* fault_simulate: the status it returns
    exit_on_error,      \* compile_assembly: its keyword argument
    asm_compilation,    \* compile_assembly: what it returns
    compilation_status,  \* compile_sources: the status it returns
    timeout,    \* execute: its timeout, None or a number of seconds
    processes,    \* execute: the live processes its instructions spawned
    trace,              \* the rows of the table `trace` of the database, by ROWID
    query,              \* query_trace_db: its arguments
    result,             \* query_trace_db, prune_candidates: what it returns or raises
    fault_list,         \* Preprocessor.fault_list: the fault_attributes of each fault
    elf,                \* Preprocessor.elf: the line program, file and line by address
    removed_lines,       \* prune_candidates: its list `removed`, of line numbers
    statuses,    \* the fault status of each line of the FaultList section parsed
    faults,    \* the Fault objects the transformer has returned
    fault_parts,    \* the fault_status part of the line being reduced
    _prev_fstatus,    \* FaultReportFaultListTransformer._prev_fstatus
    _prev_prime,    \* FaultReportFaultListTransformer._prev_prime: a fault, or 0 for None
    _is_prime,    \* FaultReportFaultListTransformer._is_prime
    fault_report,    \* TxtFaultReport.fault_report, as fault_report.splitlines()
    extracted,    \* TxtFaultReport.extract: what it returns
    coverage_call,    \* compute_flist_coverage: its arguments (fault_list, sff_file, formula)
    coverage_result,    \* compute_flist_coverage: what it returns or raises
    init_args,    \* AssemblyHandler.__init__: the content of assembly_source, and chunksize
    handler,    \* the AssemblyHandler constructed from init_args
    pre_run_stats,    \* pre_run: the tat_value of its logic simulation, and the (TaT, coverage) it returns
    iteration_stl_stats    \* run: the tat_value of an iteration's logic simulation, and its new_stl_stats

hvars == <<handlers, pops, hist>>
dvars == <<pc, zoix_compilation_args, all_instructions, initial_stl_stats,
           old_stl_stats, iteration_stats, stats, trial>>
zvars == <<instructions, executed, exit_success, tat_success, tat_value,
           simulation_status>>
fvars == <<allow, fault_simulation_status>>
cvars == <<exit_on_error, asm_compilation, compilation_status>>
evars == <<timeout, processes>>
qvars == <<trace, query, result, fault_list, elf, removed_lines>>
lvars == <<statuses, faults, fault_parts, _prev_fstatus, _prev_prime, _is_prime>>
tvars == <<fault_report, extracted>>
kvars == <<coverage_call, coverage_result>>
nvars == <<init_args, handler>>
avars == <<pre_run_stats, iteration_stl_stats>>
uvars == <<avars, nvars, kvars, tvars, lvars, qvars, evars, cvars, fvars>>
xvars == <<a1xx_settings, all_code_chunks, block_i, candidate_codelines, trials_left, zvars,
           uvars>>
vars == <<hvars, dvars, xvars>>

-----------------------------------------------------------------------------
(* Bounds of the model *)

MaxLines == 3      \* lines of an assembly source file
MaxTat == 1        \* largest test application time a simulation reports
MaxCov == 1        \* largest coverage value a fault simulation yields
MaxCmds == 2       \* instructions of one call of logic_simulate

-----------------------------------------------------------------------------
(* Characters and strings *)

SP  == " "
TAB == "\t"
NL  == "\n"

Whitespace == {SP, TAB, NL}

RECURSIVE LStrip(_)
LStrip(s) ==
    IF s = <<>> THEN <<>>
    ELSE IF Head(s) \in Whitespace THEN LStrip(Tail(s)) ELSE s

RECURSIVE RStrip(_)
RStrip(s) ==
    IF s = <<>> THEN <<>>
    ELSE IF s[Len(s)] \in Whitespace THEN RStrip(SubSeq(s, 1, Len(s) - 1)) ELSE s

\* str.strip()
Strip(s) == RStrip(LStrip(s))

\* re.sub(r'\s+', ' ', s)
CollapseNone(s) == s
RECURSIVE Collapse(_)
Collapse(s) ==
    IF s = <<>> THEN <<>>
    ELSE IF Head(s) \in Whitespace THEN <<SP>> \o Collapse(LStrip(s))
         ELSE <<Head(s)>> \o Collapse(Tail(s))

\* line = re.sub(r'\s+', ' ', line.strip())
Normalize(line) == Collapse(Strip(line))

\* s.split()[0] for a string that holds a token
RECURSIVE TakeToken(_)
TakeToken(s) ==
    IF s = <<>> \/ Head(s) \in Whitespace THEN <<>>
    ELSE <<Head(s)>> \o TakeToken(Tail(s))

FirstToken(s) == TakeToken(LStrip(s))

\* Iterating a text file: the lines, each with its terminating newline
\* (the last one without, when the file does not end in a newline).
RECURSIVE SplitLines(_)
SplitLines(s) ==
    IF s = <<>> THEN <<>>
    ELSE LET nls == {i \in 1..Len(s) : s[i] = NL}
         IN  IF nls = {} THEN <<s>>
             ELSE LET i == CHOOSE j \in nls : \A m \in nls : j <= m
                  IN  <<SubSeq(s, 1, i)>> \o SplitLines(SubSeq(s, i + 1, Len(s)))

\* The content produced by writing the given strings one after the other
RECURSIVE Concat(_)
Concat(ss) == IF ss = <<>> THEN <<>> ELSE Head(ss) \o Concat(Tail(ss))

RECURSIVE Flatten(_)
Flatten(chunks) == IF chunks = <<>> THEN <<>> ELSE Head(chunks) \o Flatten(Tail(chunks))

Range(f) == {f[i] : i \in DOMAIN f}

RemoveAt(s, i) == SubSeq(s, 1, i - 1) \o SubSeq(s, i + 1, Len(s))

RECURSIVE SelectIdx(_, _, _)
\* the indices i of s, in order, for which Keep[i]
SelectIdx(n, i, Keep) ==
    IF i > n THEN <<>>
    ELSE (IF Keep[i] THEN <<i>> ELSE <<>>) \o SelectIdx(n, i + 1, Keep)

-----------------------------------------------------------------------------
(* ISA *)

\* ISA.mnemonics: the mnemonic set of the ISA file
mnemonics == {<<"a">>, <<"n">>}

\* ISA.is_instruction
is_instruction(assembly_line) == FirstToken(assembly_line) \in mnemonics

-----------------------------------------------------------------------------
(* Codeline *)

\* Codeline.__isub__
isub(lineno, other) == IF lineno > 0 THEN lineno - other ELSE lineno

\* Codeline.__iadd__
iadd(lineno, other) == lineno + other

\* Codeline.__eq__ against an int or another Codeline (by lineno)
eq_next(lineno, other) == lineno + 1 = other
eq(lineno, other) == lineno = other

\* Codeline.__gt__
gt_as_ge(lineno, other) == lineno >= other
gt(lineno, other) == lineno > other

\* Codeline.__ge__
ge_as_gt(lineno, other) == lineno > other
ge(lineno, other) == lineno >= other

\* `chunk_codeline is codeline_to_be_restored`: object identity
is_never(a, b) == FALSE
is_(a, b) == a = b

-----------------------------------------------------------------------------
(* AssemblyHandler *)

\* The `code` list of __init__: one Codeline per non-empty line
ParseCode(content) ==
    LET lines == SplitLines(content)
        norm  == [i \in 1..Len(lines) |-> Normalize(lines[i])]
        keep  == SelectIdx(Len(lines), 1, [i \in 1..Len(lines) |-> norm[i] # <<>>])
    IN  [j \in 1..Len(keep) |->
            [lineno     |-> keep[j] - 1,
             data       |-> norm[keep[j]],
             valid_insn |-> is_instruction(norm[keep[j]])]]

\* The candidates kept as one chunk
Unchunked(l, chunksize) == IF l = <<>> THEN <<>> ELSE <<l>>

RECURSIVE Chunked(_, _)
\* [l[i:i + chunksize] for i in range(0, len(l), chunksize)]
Chunked(l, chunksize) ==
    IF l = <<>> THEN <<>>
    ELSE IF Len(l) <= chunksize THEN <<l>>
         ELSE <<SubSeq(l, 1, chunksize)>> \o Chunked(SubSeq(l, chunksize + 1, Len(l)), chunksize)

\* AssemblyHandler.__init__
AssemblyHandler(content, chunksize) ==
    LET code == ParseCode(content)
        insn == SelectIdx(Len(code), 1, [j \in 1..Len(code) |-> code[j].valid_insn])
    IN  [asm_file           |-> content,
         code               |-> code,
         candidates         |-> Chunked(insn, chunksize),
         asm_file_changelog |-> <<>>]

\* AssemblyHandler.get_code: the Codeline objects (identities), in order
get_code(H) == Flatten(H.candidates)

\* get_code() as values: (lineno, data) of each Codeline, in order
CodeView(H) ==
    LET ids == get_code(H)
    IN  [i \in 1..Len(ids) |-> <<H.code[ids[i]].lineno, H.code[ids[i]].data>>]

\* AssemblyHandler.get_candidate: the first Codeline of candidates with the
\* given lineno; 0 stands for LookupError
get_candidate(H, lineno) ==
    LET ids  == get_code(H)
        hits == {i \in 1..Len(ids) : H.code[ids[i]].lineno = lineno}
    IN  IF hits = {} THEN 0
        ELSE ids[CHOOSE i \in hits : \A j \in hits : i <= j]

\* AssemblyHandler.get_random_candidate with the two random draws given:
\* <<the Codeline, the handler afterwards>>
get_random_candidate(H, random_chunk, random_codeline, pop_candidate) ==
    LET chunk    == H.candidates[random_chunk]
        codeline == chunk[random_codeline]
        rest     == RemoveAt(chunk, random_codeline)
    IN  IF pop_candidate
        THEN <<codeline,
               [H EXCEPT !.candidates =
                    IF rest = <<>> THEN RemoveAt(H.candidates, random_chunk)
                    ELSE [H.candidates EXCEPT ![random_chunk] = rest]]>>
        ELSE <<codeline, H>>

\* A remove that only logs the Codeline
remove_logged(H, codeline) == [H EXCEPT !.asm_file_changelog = Append(@, codeline)]

\* AssemblyHandler.remove
remove(H, codeline) ==
    LET source == SplitLines(H.asm_file)
        k      == H.code[codeline].lineno
        kept   == SelectIdx(Len(source), 1,
                            [i \in 1..Len(source) |-> ~eq(H.code[codeline].lineno, i - 1)])
        cands  == Range(get_code(H))
    IN  [H EXCEPT
            !.asm_file = Concat([j \in 1..Len(kept) |-> source[kept[j]]]),
            !.code = [id \in DOMAIN H.code |->
                        IF id \in cands /\ gt(H.code[id].lineno, k)
                        THEN [H.code[id] EXCEPT !.lineno = isub(@, 1)]
                        ELSE H.code[id]],
            !.asm_file_changelog = Append(@, codeline)]

\* The file rewrite of AssemblyHandler.restore
RestoredFile(content, lineno, data) ==
    LET source == SplitLines(content)
        out    == [i \in 1..Len(source) |->
                      IF eq(lineno, i - 1) THEN data \o <<NL>> \o source[i] ELSE source[i]]
        line_restored == \E i \in 1..Len(source) : eq(lineno, i - 1)
    IN  IF line_restored THEN Concat(out) ELSE Concat(out) \o data \o <<NL>>

restore_skipped(H) == H

\* The shift of restore applied to every Codeline, whatever the changelog holds
restore_shifting(H) ==
    [H EXCEPT !.code = [id \in DOMAIN H.code |-> [H.code[id] EXCEPT !.lineno = iadd(@, 1)]]]

\* AssemblyHandler.restore
restore(H) ==
    IF H.asm_file_changelog = <<>> THEN H
    ELSE LET codeline_to_be_restored == H.asm_file_changelog[Len(H.asm_file_changelog)]
             cands == Range(get_code(H))
             code  == [id \in DOMAIN H.code |->
                         IF id \in cands /\ ~is_(id, codeline_to_be_restored)
                            /\ ge(H.code[id].lineno, H.code[codeline_to_be_restored].lineno)
                         THEN [H.code[id] EXCEPT !.lineno = iadd(@, 1)]
                         ELSE H.code[id]]
         IN  [H EXCEPT
                !.asm_file_changelog = SubSeq(@, 1, Len(@) - 1),
                !.code = code,
                !.asm_file = RestoredFile(@, code[codeline_to_be_restored].lineno,
                                          code[codeline_to_be_restored].data)]

-----------------------------------------------------------------------------
(* Source files *)

\* The lines a source file is made of (without their newline): instructions
\* in several layouts, a non-instruction line and a blank line
RawLines ==
    { <<"n">>,
      <<TAB, "a", SP, SP, "x">>,
      <<"#">>,
      <<>> }

\* The chunk sizes handlers are constructed with (A0 uses 1)
ChunkSizes == {1, 2}

\* The file holding the given lines; the last newline is optional
FileOf(ls, endnl) ==
    LET text == Concat([i \in 1..Len(ls) |-> ls[i] \o <<NL>>])
    IN  IF endnl THEN text ELSE SubSeq(text, 1, Len(text) - 1)

Sources ==
    { FileOf(ls, endnl) :
        ls \in UNION {[1..n -> RawLines] : n \in 1..MaxLines}, endnl \in BOOLEAN }

-----------------------------------------------------------------------------
(* One handler under arbitrary remove / restore calls *)

\* No call of fault_simulate is modelled
NoFsim ==
    /\ allow = {}
    /\ fault_simulation_status = "None"

\* No compilation is modelled on its own
NoCompile ==
    /\ exit_on_error = FALSE
    /\ asm_compilation = "None"
    /\ compilation_status = "None"

\* No call of execute is modelled on its own
NoExecute ==
    /\ timeout = "None"
    /\ processes = {}

\* No trace database is queried on its own
NoQuery ==
    /\ trace = <<>>
    /\ query = <<>>
    /\ result = <<>>
    /\ fault_list = <<>>
    /\ elf = <<>>
    /\ removed_lines = <<>>

\* No FaultList section is parsed
NoFaultList ==
    /\ statuses = <<>>
    /\ faults = <<>>
    /\ fault_parts = <<>>
    /\ _prev_fstatus = ""
    /\ _prev_prime = 0
    /\ _is_prime = FALSE

\* No fault report is read
NoExtract ==
    /\ fault_report = <<>>
    /\ extracted = <<>>

\* No coverage is computed
NoCoverage ==
    /\ coverage_call = <<>>
    /\ coverage_result = <<>>

\* No handler is constructed on its own
NoConstruction ==
    /\ init_args = <<>>
    /\ handler = <<>>

\* No selection of a test application time is modelled on its own
NoAnchor ==
    /\ pre_run_stats = <<>>
    /\ iteration_stl_stats = <<>>

\* No function but the named one is modelled
NoToolsBut(tool) ==
    /\ IF tool = "fault_simulate" THEN TRUE ELSE NoFsim
    /\ IF tool = "compile" THEN TRUE ELSE NoCompile
    /\ IF tool = "execute" THEN TRUE ELSE NoExecute
    /\ IF tool = "Preprocessor" THEN TRUE ELSE NoQuery
    /\ IF tool = "FaultList" THEN TRUE ELSE NoFaultList
    /\ IF tool = "TxtFaultReport" THEN TRUE ELSE NoExtract
    /\ IF tool = "compute_flist_coverage" THEN TRUE ELSE NoCoverage
    /\ IF tool = "AssemblyHandler" THEN TRUE ELSE NoConstruction
    /\ IF tool = "pre_run" THEN TRUE ELSE NoAnchor

ToolsUnchangedBut(tool) ==
    /\ IF tool = "fault_simulate" THEN TRUE ELSE UNCHANGED fvars
    /\ IF tool = "compile" THEN TRUE ELSE UNCHANGED cvars
    /\ IF tool = "execute" THEN TRUE ELSE UNCHANGED evars
    /\ IF tool = "Preprocessor" THEN TRUE ELSE UNCHANGED qvars
    /\ IF tool = "FaultList" THEN TRUE ELSE UNCHANGED lvars
    /\ IF tool = "TxtFaultReport" THEN TRUE ELSE UNCHANGED tvars
    /\ IF tool = "compute_flist_coverage" THEN TRUE ELSE UNCHANGED kvars
    /\ IF tool = "AssemblyHandler" THEN TRUE ELSE UNCHANGED nvars
    /\ IF tool = "pre_run" THEN TRUE ELSE UNCHANGED avars

\* No call of logic_simulate is modelled
NoLsim ==
    /\ NoToolsBut("logic_simulate")
    /\ instructions = 0
    /\ executed = <<>>
    /\ exit_success = FALSE
    /\ tat_success = FALSE
    /\ tat_value = <<>>
    /\ simulation_status = "None"

\* No A1xx driver has been constructed
NoA1xx ==
    /\ NoLsim
    /\ a1xx_settings = <<>>
    /\ all_code_chunks = <<>>
    /\ block_i = 0
    /\ candidate_codelines = <<>>
    /\ trials_left = 0

\* Codelines of candidates that are in the file (not in the changelog)
Live(H) == Range(get_code(H)) \ Range(H.asm_file_changelog)

\* seq: the calls since the changelog was last empty are seq[1] removes
\* followed by seq[2] restores (<<0, 0>> when they are not of that shape);
\* orig: the file before the first of them
NoHist == [op |-> "init", c |-> 0, pre |-> <<>>, fresh |-> FALSE, rt |-> <<>>,
           seq |-> <<0, 0>>, orig |-> <<>>]

\* hist.seq and hist.orig after a remove on H
Removing(H) ==
    IF H.asm_file_changelog = <<>> THEN [seq |-> <<1, 0>>, orig |-> H.asm_file]
    ELSE IF hist.seq[1] >= 1 /\ hist.seq[2] = 0
         THEN [seq |-> <<hist.seq[1] + 1, 0>>, orig |-> hist.orig]
         ELSE [seq |-> <<0, 0>>, orig |-> <<>>]

\* hist.seq and hist.orig after a restore on H
Restoring(H) ==
    IF H.asm_file_changelog # <<>> /\ hist.seq[1] > hist.seq[2]
    THEN [seq |-> <<hist.seq[1], hist.seq[2] + 1>>, orig |-> hist.orig]
    ELSE [seq |-> <<0, 0>>, orig |-> <<>>]

InitAsm ==
    /\ \E content \in Sources, chunksize \in ChunkSizes :
          handlers = <<AssemblyHandler(content, chunksize)>>
    /\ pops \in BOOLEAN
    /\ hist = NoHist
    /\ pc = "asm"
    /\ zoix_compilation_args = FALSE
    /\ all_instructions = <<>>
    /\ initial_stl_stats = <<>>
    /\ old_stl_stats = <<>>
    /\ iteration_stats = <<>>
    /\ stats = <<>>
    /\ trial = <<>>
    /\ NoA1xx

\* handler.remove(codeline) for a Codeline of candidates that is in the file,
\* as the drivers and the unit tests call it
Remove(h, codeline) ==
    /\ ~pops
    /\ codeline \in Live(handlers[h])
    /\ UNCHANGED <<xvars, pops, dvars>>
    /\ handlers' = [handlers EXCEPT ![h] = remove(@, codeline)]
    /\ hist' = [op |-> "remove", c |-> codeline, pre |-> handlers[h],
                fresh |-> hist.op = "init", rt |-> <<>>,
                seq |-> Removing(handlers[h]).seq, orig |-> Removing(handlers[h]).orig]

\* handler.remove(handler.get_random_candidate()), as main() of asm.py calls
\* it: the Codeline is popped from candidates first
RemoveRandomCandidate(h, random_chunk, random_codeline) ==
    LET got == get_random_candidate(handlers[h], random_chunk, random_codeline, TRUE)
    IN  /\ pops
        /\ UNCHANGED <<xvars, pops, dvars>>
        /\ handlers' = [handlers EXCEPT ![h] = remove(got[2], got[1])]
        /\ hist' = [op |-> "remove_popped", c |-> got[1], pre |-> got[2],
                    fresh |-> FALSE, rt |-> <<>>,
                    seq |-> Removing(handlers[h]).seq, orig |-> Removing(handlers[h]).orig]

\* handler.restore()
Restore(h) ==
    /\ UNCHANGED <<xvars, pops, dvars>>
    /\ handlers' = [handlers EXCEPT ![h] = restore(@)]
    /\ hist' = [op |-> IF handlers[h].asm_file_changelog = <<>> THEN "restore_empty"
                       ELSE "restore",
                c |-> IF handlers[h].asm_file_changelog = <<>> THEN 0
                      ELSE handlers[h].asm_file_changelog[Len(handlers[h].asm_file_changelog)],
                pre |-> handlers[h],
                fresh |-> hist.op = "remove" /\ hist.fresh,
                rt |-> IF hist.op = "remove" /\ hist.fresh THEN hist.pre ELSE <<>>,
                seq |-> Restoring(handlers[h]).seq, orig |-> Restoring(handlers[h]).orig]

NextAsm ==
    \/ \E codeline \in DOMAIN handlers[1].code : Remove(1, codeline)
    \/ \E random_chunk \in DOMAIN handlers[1].candidates :
         \E random_codeline \in DOMAIN handlers[1].candidates[random_chunk] :
            RemoveRandomCandidate(1, random_chunk, random_codeline)
    \/ Restore(1)

SpecAsm == InitAsm /\ [][NextAsm]_vars

-----------------------------------------------------------------------------
(* Properties of the handler *)

H1 == handlers[1]

\* 0-based line n of a file, normalized; <<>> when the file has no line n
LineAt(content, n) ==
    LET lines == SplitLines(content)
    IN  IF n >= 0 /\ n < Len(lines) THEN Normalize(lines[n + 1]) ELSE <<>>

\* The non-whitespace characters of a string, in order
NonWs(s) == SelectSeq(s, LAMBDA ch : ch \notin Whitespace)

\* The number of whitespace-separated tokens of a string
WordStarts(s) ==
    Cardinality({i \in 1..Len(s) :
        s[i] \notin Whitespace /\ (i = 1 \/ s[i - 1] \in Whitespace)})

\* Single-spaced text without leading or trailing whitespace
IsNormalized(t) ==
    /\ t # <<>>
    /\ t[1] \notin Whitespace /\ t[Len(t)] \notin Whitespace
    /\ \A i \in 1..Len(t) : t[i] \in Whitespace => (t[i] = SP /\ t[i + 1] \notin Whitespace)

RECURSIVE StripNewlines(_)
\* A file's content without its trailing newlines
StripNewlines(s) ==
    IF s # <<>> /\ s[Len(s)] = NL THEN StripNewlines(SubSeq(s, 1, Len(s) - 1)) ELSE s

\* A restore() that directly follows remove(c) on a newly constructed handler
RoundTrip == hist.op = "restore" /\ hist.fresh

\* C3: remove(c) then restore() on a newly constructed handler leaves the
\* changelog empty and candidates with the same chunks and line numbers, and
\* get_code() equals that of a handler constructed from the file on disk.
C3_RoundTripCandidates ==
    RoundTrip =>
        /\ H1.asm_file_changelog = <<>>
        /\ H1.candidates = hist.rt.candidates
        /\ \A id \in Range(get_code(H1)) : H1.code[id].lineno = hist.rt.code[id].lineno
        /\ \E chunksize \in ChunkSizes :
              /\ AssemblyHandler(H1.asm_file, chunksize).candidates = H1.candidates
              /\ CodeView(AssemblyHandler(H1.asm_file, chunksize)) = CodeView(H1)

\* a round trip of a Codeline that is followed by another candidate
C3_Witness ==
    /\ RoundTrip
    /\ \E id \in Range(get_code(H1)) : H1.code[id].lineno > H1.code[hist.c].lineno

\* C4 as claimed: after remove(c) then restore() the file equals the
\* original source byte for byte, up to trailing newlines.
C4_ByteIdentical ==
    RoundTrip => StripNewlines(H1.asm_file) = StripNewlines(hist.rt.asm_file)

\* C4 as amended: after remove(c) then restore() the file is the original
\* with line c.lineno replaced by c's whitespace-normalized text and a
\* newline: single-spaced, trimmed, with the original line's tokens; every
\* other line is byte-identical.
C4_RoundTripFile ==
    RoundTrip =>
        LET k   == H1.code[hist.c].lineno
            old == SplitLines(hist.rt.asm_file)
            new == SplitLines(H1.asm_file)
        IN  /\ Len(new) = Len(old)
            /\ \A i \in 1..Len(old) : i # k + 1 => new[i] = old[i]
            /\ new[k + 1][Len(new[k + 1])] = NL
            /\ IsNormalized(SubSeq(new[k + 1], 1, Len(new[k + 1]) - 1))
            /\ NonWs(new[k + 1]) = NonWs(old[k + 1])
            /\ WordStarts(new[k + 1]) = WordStarts(old[k + 1])

\* a round trip of an indented line with repeated spaces
C4_Witness ==
    /\ RoundTrip
    /\ LineAt(H1.asm_file, H1.code[hist.c].lineno) = <<"a", SP, "x">>
    /\ H1.asm_file # hist.rt.asm_file

\* C5 as claimed: every Codeline of candidates has a lineno at which the
\* file holds its text.
C5_CandidatesOnDisk ==
    \A id \in Range(get_code(H1)) : LineAt(H1.asm_file, H1.code[id].lineno) = H1.code[id].data

\* C5 as amended: every Codeline of candidates that is not in the changelog
\* has a lineno at which the file holds its text, and get_candidate(n), when
\* it returns such a Codeline, returns the one whose text is at line n.
C5_LiveCandidatesOnDisk ==
    /\ \A id \in Live(H1) : LineAt(H1.asm_file, H1.code[id].lineno) = H1.code[id].data
    /\ \A n \in 0..MaxLines :
         LET found == get_candidate(H1, n)
         IN  found \in Live(H1) => LineAt(H1.asm_file, n) = H1.code[found].data

\* a Codeline was removed and another restored, with candidates left in the file
C5_Witness ==
    /\ hist.op = "restore"
    /\ H1.asm_file_changelog # <<>>
    /\ Cardinality(Live(H1)) >= 2

\* The handler was changed by remove(c), c recorded at line k
Removed == hist.op \in {"remove", "remove_popped"}

C7_RestoreShift ==
    hist.op = "restore" =>
        LET k   == hist.pre.code[hist.c].lineno
            old == SplitLines(hist.pre.asm_file)
            new == SplitLines(H1.asm_file)
        IN  /\ \A id \in Range(get_code(H1)) \ {hist.c} :
                 H1.code[id].lineno =
                    IF hist.pre.code[id].lineno >= k THEN hist.pre.code[id].lineno + 1
                    ELSE hist.pre.code[id].lineno
            /\ H1.code[hist.c].lineno = k
            /\ Len(new) = Len(old) + 1
            /\ new[IF Len(old) >= k THEN k + 1 ELSE Len(new)] = H1.code[hist.c].data \o <<NL>>

\* a restore with candidates at or above the restored line, and below it
C7_Witness ==
    /\ hist.op = "restore"
    /\ \E id \in Range(get_code(H1)) \ {hist.c} : hist.pre.code[id].lineno >= hist.pre.code[hist.c].lineno
    /\ \E id \in Range(get_code(H1)) \ {hist.c} : hist.pre.code[id].lineno < hist.pre.code[hist.c].lineno

\* C8 as claimed: after remove(c), c is no longer an element of candidates
\* and is the top of the changelog with its lineno unchanged.
C8_RemoveDetaches ==
    Removed =>
        /\ hist.c \notin Range(get_code(H1))
        /\ H1.asm_file_changelog[Len(H1.asm_file_changelog)] = hist.c
        /\ H1.code[hist.c].lineno = hist.pre.code[hist.c].lineno

\* C8 as amended: remove(c) leaves c in candidates, at its place in its
\* chunk, and c is the top of the changelog with its lineno unchanged.
C8_RemoveKeepsCandidate ==
    Removed =>
        /\ H1.candidates = hist.pre.candidates
        /\ (hist.op = "remove" => hist.c \in Range(get_code(H1)))
        /\ H1.asm_file_changelog = Append(hist.pre.asm_file_changelog, hist.c)
        /\ H1.code[hist.c].lineno = hist.pre.code[hist.c].lineno

\* chunks [[L1],[L2],[L3]]: remove(L2) leaves [[L1],[L2],[L3]], L2 and L3 at
\* the same line
C8_Witness ==
    /\ hist.op = "remove"
    /\ Len(H1.candidates) = 3 /\ \A i \in 1..3 : Len(H1.candidates[i]) = 1
    /\ hist.c = H1.candidates[2][1]
    /\ H1.code[H1.candidates[3][1]].lineno = H1.code[hist.c].lineno
    /\ H1.code[hist.c].lineno > 0

\* C9 as claimed: no two distinct Codelines of candidates have the same
\* lineno.
C9_DistinctLinenos ==
    \A id1, id2 \in Range(get_code(H1)) :
        id1 # id2 => H1.code[id1].lineno # H1.code[id2].lineno

\* C9 as amended: no two distinct Codelines of candidates that are in the
\* file (not in the changelog) have the same lineno.
C9_DistinctLiveLinenos ==
    \A id1, id2 \in Live(H1) :
        id1 # id2 => H1.code[id1].lineno # H1.code[id2].lineno

\* two candidates in the file after a removal and a restore
C9_Witness ==
    /\ hist.op = "restore"
    /\ Cardinality(Live(H1)) >= 2
    /\ \E id \in Range(H1.asm_file_changelog) : id \in Range(get_code(H1))

-----------------------------------------------------------------------------
(* The A0 driver: pre_run() and run() *)

\* Values of a statistics row.  None is <<>>; an int n is <<"int", n>>, a
\* float <<"float", n>>, a string <<"str", .>> (str(n) of a number n is
\* <<"str", n>>), and a Codeline object of handler asm_id is
\* <<"Codeline", asm_id, codeline>>.
None == <<>>

\* CSVCompactionStatistics._header
header ==
    {"asm_source", "removed_codeline", "compiles", "lsim_ok",
     "tat", "fsim_ok", "coverage", "verdict"}

\* dict.fromkeys(CSVCompactionStatistics._header)
fromkeys == [k \in header |-> None]

\* Python truth value of a row value
Truthy(v) ==
    IF v = None THEN FALSE
    ELSE IF v[1] \in {"int", "float"} THEN v[2] # 0
    ELSE TRUE

\* any(iteration_stats.values())
any(row) == \E k \in DOMAIN row : Truthy(row[k])

\* CSVCompactionStatistics.__iadd__: the row as written, a Codeline as its
\* str() at the time of writing
writerow(row) ==
    [k \in DOMAIN row |->
        IF row[k] # None /\ row[k][1] = "Codeline"
        THEN <<"str", <<handlers[row[k][2]].code[row[k][3]].lineno,
                        handlers[row[k][2]].code[row[k][3]].data>>>>
        ELSE row[k]]

Tats == 0..MaxTat
Covs == 0..MaxCov

\* How many values a successful logic simulation appends to tat_value
Captures == {1, 2}

\* tat_value after a successful logic simulation: the captures, in order
TatValues == UNION {[1..n -> Tats] : n \in Captures}

\* Statuses other than SUCCESS, by their .value
LsimFailures == {"TIMEOUT", "ERROR"}
FsimFailures == {"TIMEOUT", "ERROR"}

\* test_application_time.pop(): the last value captured
pop_last(test_application_time) == test_application_time[Len(test_application_time)]

\* test_application_time.pop(0): the first value captured
pop_first(test_application_time) == test_application_time[1]

\* An evaluation of the test application time alone
evaluate_tat(previous_result, new_result) == new_result[1] <= previous_result[1]

evaluate_strict(previous_result, new_result) ==
    (new_result[1] < previous_result[1]) /\ (new_result[2] >= previous_result[2])

\* A0.evaluate
evaluate(previous_result, new_result) ==
    (new_result[1] <= previous_result[1]) /\ (new_result[2] >= previous_result[2])

\* The runs of the driver: the source files of the STL, and whether HDL
\* compilation instructions are configured
A0Runs ==
    { [sources |-> << FileOf(<< <<"n">>, <<TAB, "a", SP, SP, "x">> >>, TRUE),
                      FileOf(<< <<"#">>, <<"n">> >>, TRUE) >>,
       vcs_compilation_instructions |-> TRUE],
      [sources |-> << FileOf(<< <<"n">> >>, FALSE) >>,
       vcs_compilation_instructions |-> FALSE] }

\* A0.__init__: all_instructions, the (asm_id, Codeline) pairs of all
\* handlers; asm_id counts from 1 here
FlattenInstructions(hs) ==
    Flatten([asm_id \in 1..Len(hs) |->
                [i \in 1..Len(get_code(hs[asm_id])) |-> <<asm_id, get_code(hs[asm_id])[i]>>]])

NoTrial ==
    [n |-> 0, asm_id |-> 0, codeline |-> 0, stage |-> "none", verdict |-> "",
     restores |-> 0, old |-> <<>>, new |-> <<>>, pre |-> <<>>]

InitA0 ==
    /\ \E a0 \in A0Runs :
          /\ handlers = [asm_id \in 1..Len(a0.sources) |->
                            AssemblyHandler(a0.sources[asm_id], 1)]
          /\ zoix_compilation_args = a0.vcs_compilation_instructions
    /\ pops = FALSE
    /\ hist = NoHist
    /\ pc = "pre_run"
    /\ all_instructions = FlattenInstructions(handlers)
    /\ initial_stl_stats = <<>>
    /\ old_stl_stats = <<>>
    /\ iteration_stats = <<>>
    /\ stats = <<>>
    /\ trial = NoTrial
    /\ NoA1xx

\* Why pre_run() can end in exit(1)
PreRunFailures ==
    {"pre_run_hdl_compile", "pre_run_lsim_exception", "pre_run_lsim", "pre_run_fsim"}

\* pre_run() ends in exit(1): the HDL sources do not compile, the logic
\* simulation raises or does not succeed, the fault simulation does not
\* succeed
PreRunExits(cause) ==
    /\ pc = "pre_run"
    /\ cause = "pre_run_hdl_compile" => zoix_compilation_args
    /\ pc' = "exit"
    /\ trial' = [trial EXCEPT !.stage = cause]
    /\ UNCHANGED <<xvars, hvars, zoix_compilation_args, all_instructions, initial_stl_stats,
                   old_stl_stats, iteration_stats, stats>>

\* pre_run() returns (test_application_time.pop(), coverage)
PreRunReturns(test_application_time, coverage) ==
    /\ pc = "pre_run"
    /\ initial_stl_stats' = <<pop_last(test_application_time), coverage>>
    /\ pc' = "run"
    /\ UNCHANGED <<xvars, hvars, zoix_compilation_args, all_instructions,
                   old_stl_stats, iteration_stats, stats, trial>>

\* run() up to its loop: the statistics file with its header, the shuffle,
\* the first row with the initial TaT and coverage, the anchor
RunBegins(shuffle) ==
    /\ pc = "run"
    /\ all_instructions' = [i \in DOMAIN all_instructions |-> all_instructions[shuffle[i]]]
    /\ stats' = <<>>
    /\ iteration_stats' = [fromkeys EXCEPT !.tat = <<"int", initial_stl_stats[1]>>,
                                            !.coverage = <<"float", initial_stl_stats[2]>>]
    /\ old_stl_stats' = initial_stl_stats
    /\ pc' = "loop"
    /\ UNCHANGED <<xvars, hvars, zoix_compilation_args, initial_stl_stats, trial>>

\* One iteration of the loop of run(), from the statistics update to the
\* `continue`, the exit(1) or the end of the body.  `row` maps the columns
\* the iteration sets to their values; `verdict` is "Proceed", "Restore" or
\* "exit".
Iteration(stage, row, verdict, new_stl_stats) ==
    LET flush    == any(iteration_stats)
        asm_id   == all_instructions[1][1]
        codeline == all_instructions[1][2]
        started  == [(IF flush THEN fromkeys ELSE iteration_stats) EXCEPT
                        !.asm_source = <<"str", asm_id>>,
                        !.removed_codeline = <<"Codeline", asm_id, codeline>>]
        removed  == [handlers EXCEPT ![asm_id] = remove(@, codeline)]
    IN  /\ pc = "loop"
        /\ all_instructions # <<>>
        /\ stats' = IF flush THEN Append(stats, [iter |-> trial.n, row |-> writerow(iteration_stats)])
                    ELSE stats
        /\ all_instructions' = Tail(all_instructions)
        /\ iteration_stats' = [k \in header |-> IF k \in DOMAIN row THEN row[k] ELSE started[k]]
        /\ handlers' = IF verdict = "Restore" THEN [removed EXCEPT ![asm_id] = restore(@)]
                       ELSE removed
        /\ old_stl_stats' = IF verdict = "Proceed" THEN new_stl_stats ELSE old_stl_stats
        /\ pc' = IF verdict = "exit" THEN "exit" ELSE "loop"
        /\ trial' = [n |-> trial.n + 1, asm_id |-> asm_id, codeline |-> codeline,
                     stage |-> stage, verdict |-> verdict,
                     restores |-> IF verdict = "Restore" THEN 1 ELSE 0,
                     old |-> old_stl_stats, new |-> new_stl_stats, pre |-> handlers]
        /\ UNCHANGED <<xvars, pops, hist, zoix_compilation_args, initial_stl_stats>>

YES == <<"str", "YES">>
\* f"NO-{value}"
NO(value) == <<"str", "NO", value>>

\* the assembly sources do not compile
IterAsmCompileFails ==
    Iteration("asm_compile",
              [compiles |-> <<"str", "NO">>, verdict |-> <<"str", "Restore">>],
              "Restore", <<>>)

\* the HDL sources do not compile: exit(1)
IterHdlCompileError ==
    /\ zoix_compilation_args
    /\ Iteration("hdl_compile", <<>>, "exit", <<>>)

\* logic_simulate raises LogicSimulationException: exit(1)
IterLsimRaises ==
    Iteration("lsim_exception", <<>>, "exit", <<>>)

\* the logic simulation ends in TIMEOUT or SIM_ERROR
IterLsimFails(lsim) ==
    Iteration("lsim",
              [compiles |-> YES, lsim_ok |-> NO(lsim), verdict |-> <<"str", "Restore">>],
              "Restore", <<>>)

\* the fault simulation ends in TIMEOUT or FSIM_ERROR
IterFsimFails(test_application_time, fsim) ==
    Iteration("fsim",
              [compiles |-> YES, lsim_ok |-> YES,
               tat |-> <<"str", test_application_time[1]>>,
               fsim_ok |-> NO(fsim), verdict |-> <<"str", "Restore">>],
              "Restore", <<>>)

\* both simulations succeed: the evaluation against the anchor
IterEvaluates(test_application_time, coverage) ==
    LET new_stl_stats == <<pop_first(test_application_time), coverage>>
        proceed == evaluate(old_stl_stats, new_stl_stats)
    IN  Iteration("evaluate",
                  [compiles |-> YES, lsim_ok |-> YES,
                   tat |-> <<"str", test_application_time[1]>>,
                   fsim_ok |-> YES, coverage |-> <<"str", coverage>>,
                   verdict |-> <<"str", IF proceed THEN "Proceed" ELSE "Restore">>],
                  IF proceed THEN "Proceed" ELSE "Restore", new_stl_stats)

\* the loop of run() ends: no instruction is left
RunReturns ==
    /\ pc = "loop"
    /\ all_instructions = <<>>
    /\ pc' = "done"
    /\ UNCHANGED <<xvars, hvars, zoix_compilation_args, all_instructions, initial_stl_stats,
                   old_stl_stats, iteration_stats, stats, trial>>

AnyOrder(n) == [1..n -> 1..n]

\* The orders random.shuffle can leave n elements in
Shuffles(n) == {p \in [1..n -> 1..n] : \A i, j \in 1..n : p[i] = p[j] => i = j}

NextA0 ==
    \/ \E cause \in PreRunFailures : PreRunExits(cause)
    \/ \E test_application_time \in TatValues, coverage \in Covs :
          PreRunReturns(test_application_time, coverage)
    \/ \E shuffle \in Shuffles(Len(all_instructions)) : RunBegins(shuffle)
    \/ IterAsmCompileFails
    \/ IterHdlCompileError
    \/ IterLsimRaises
    \/ \E lsim \in LsimFailures : IterLsimFails(lsim)
    \/ \E test_application_time \in TatValues, fsim \in FsimFailures :
          IterFsimFails(test_application_time, fsim)
    \/ \E test_application_time \in TatValues, coverage \in Covs :
          IterEvaluates(test_application_time, coverage)
    \/ RunReturns

SpecA0 == InitA0 /\ [][NextA0]_vars

-----------------------------------------------------------------------------
(* Properties of the A0 driver *)

\* The last iteration ended in REJECT
Rejected == trial.verdict = "Restore"

\* C1 as claimed: after an iteration that ends in REJECT, get_code() of
\* every handler, the Codelines with their line numbers, equals its value at
\* the start of that iteration.
C1_RejectRestoresCode ==
    Rejected =>
        \A asm_id \in DOMAIN handlers : CodeView(handlers[asm_id]) = CodeView(trial.pre[asm_id])

C10_OneRowPerIteration ==
    pc = "done" =>
        /\ Len(stats) = trial.n
        /\ \A i \in 1..trial.n : Cardinality({j \in DOMAIN stats : stats[j].iter = i}) = 1

\* The last iteration ended at a stage that did not succeed
StageFailed == trial.stage \in {"asm_compile", "lsim", "fsim"}

\* C11: when the assembly compilation, the logic simulation or the fault
\* simulation of an iteration does not succeed, no later stage runs (no new
\* statistics are computed), restore() is called exactly once on the handler
\* of the removed Codeline, whose changelog and file lines are back as they
\* were, the other handlers are untouched, the anchor is unchanged and the
\* loop goes on to the next candidate (run() does not exit).
C11_FailureRecovers ==
    StageFailed =>
        LET H      == handlers[trial.asm_id]
            before == trial.pre[trial.asm_id]
        IN  /\ trial.verdict = "Restore" /\ trial.restores = 1
            /\ trial.new = <<>>
            /\ trial.stage = "asm_compile" => iteration_stats.lsim_ok = None
            /\ trial.stage \in {"asm_compile", "lsim"} => iteration_stats.fsim_ok = None
            /\ H.asm_file_changelog = before.asm_file_changelog
            /\ Len(SplitLines(H.asm_file)) = Len(SplitLines(before.asm_file))
            /\ LineAt(H.asm_file, H.code[trial.codeline].lineno) = H.code[trial.codeline].data
            /\ \A asm_id \in DOMAIN handlers \ {trial.asm_id} : handlers[asm_id] = trial.pre[asm_id]
            /\ old_stl_stats = trial.old
            /\ pc \in {"loop", "done"}

\* a fault simulation fails in a later iteration, after an accepted removal
\* in the same source
C11_Witness ==
    /\ trial.stage = "fsim"
    /\ trial.n >= 2
    /\ trial.pre[trial.asm_id].asm_file_changelog # <<>>

\* The columns an iteration sets besides asm_source and removed_codeline
Outcome(row) ==
    [k \in {"compiles", "lsim_ok", "tat", "fsim_ok", "coverage", "verdict"} |-> row[k]]

\* C12 as claimed: the row of an iteration is consistent with the stage at
\* which it ended: compiles=NO, verdict=Restore and the rest blank after an
\* assembly compilation failure; compiles=YES, lsim_ok=NO-<status>,
\* verdict=Restore after a logic simulation failure; compiles=YES,
\* lsim_ok=YES, tat, fsim_ok=NO-<status>, verdict=Restore after a fault
\* simulation failure; a row with verdict=Proceed has compiles, lsim_ok and
\* fsim_ok YES and tat and coverage set.
C12_RowMatchesStage ==
    /\ trial.stage = "asm_compile" =>
          Outcome(iteration_stats) =
             [compiles |-> <<"str", "NO">>, lsim_ok |-> None, tat |-> None,
              fsim_ok |-> None, coverage |-> None, verdict |-> <<"str", "Restore">>]
    /\ trial.stage = "lsim" =>
          /\ iteration_stats.compiles = YES
          /\ iteration_stats.lsim_ok \in {NO(lsim) : lsim \in LsimFailures}
          /\ iteration_stats.verdict = <<"str", "Restore">>
    /\ trial.stage = "fsim" =>
          /\ iteration_stats.compiles = YES /\ iteration_stats.lsim_ok = YES
          /\ iteration_stats.tat \in {<<"str", tat>> : tat \in Tats}
          /\ iteration_stats.fsim_ok \in {NO(fsim) : fsim \in FsimFailures}
          /\ iteration_stats.verdict = <<"str", "Restore">>
    /\ \A row \in {iteration_stats} \cup {stats[j].row : j \in DOMAIN stats} :
          (pc \in {"loop", "done"} /\ row.verdict = <<"str", "Proceed">>) =>
              /\ row.compiles = YES /\ row.lsim_ok = YES /\ row.fsim_ok = YES
              /\ row.tat \in {<<"str", tat>> : tat \in Tats}
              /\ row.coverage \in {<<"str", coverage>> : coverage \in Covs}

\* The last iteration was left by exit(1)
LeftAbnormally == trial.stage \in {"hdl_compile", "lsim_exception"}

\* C13 as claimed: when the driver leaves an iteration abnormally, restore()
\* has been called for the iteration's handler, so that the source files are
\* those of the last accepted state (the files at the start of the
\* iteration).
C13_AbnormalExitRestores ==
    LeftAbnormally =>
        /\ trial.restores = 1
        /\ \A asm_id \in DOMAIN handlers :
              /\ handlers[asm_id].asm_file_changelog = trial.pre[asm_id].asm_file_changelog
              /\ Len(SplitLines(handlers[asm_id].asm_file)) =
                    Len(SplitLines(trial.pre[asm_id].asm_file))

\* The candidates A0 was constructed with (A0 never changes the handlers'
\* candidates)
InitialCandidates == FlattenInstructions(handlers)

\* C15: every step of the loop pops the front of all_instructions and runs
\* one iteration for it; the list never holds a candidate twice, so each of
\* the N initial candidates is popped exactly once; the list shrinks by one
\* in every iteration, an iteration can always be taken while it is not
\* empty and run() returns once it is, after exactly N iterations.
C15_PopsEachOnce ==
    /\ [][(pc = "loop" /\ all_instructions # <<>>) =>
            /\ all_instructions' = Tail(all_instructions)
            /\ trial'.n = trial.n + 1
            /\ <<trial'.asm_id, trial'.codeline>> = Head(all_instructions)]_vars
    /\ [](pc \in {"loop", "done"} =>
            /\ \A i, j \in DOMAIN all_instructions :
                  all_instructions[i] = all_instructions[j] => i = j
            /\ Range(all_instructions) \subseteq Range(InitialCandidates)
            /\ trial.n + Len(all_instructions) = Len(InitialCandidates))
    /\ [](pc = "done" => trial.n = Len(InitialCandidates))
    /\ [](pc = "loop" => IF all_instructions = <<>> THEN ENABLED RunReturns
                                                     ELSE ENABLED IterAsmCompileFails)

\* run() has returned after three iterations over two sources
C15_Witness ==
    /\ pc = "done"
    /\ trial.n = 3
    /\ Len(handlers) = 2

-----------------------------------------------------------------------------
(* The A1xx driver: run() *)

\* CSVCompactionStatistics._header of a1xx.py
header_a1xx ==
    {"asm_source", "block_index", "removed_codelines", "compiles", "lsim_ok",
     "tat", "fsim_ok", "coverage", "verdict"}

fromkeys_a1xx == [k \in header_a1xx |-> None]

\* AssemblyHandler.get_code_chunks, which A1xx.__init__ calls and asm.py does
\* not define: the chunks of the handler, i.e. its candidates
get_code_chunks(H) == H.candidates

\* A block of all_code_chunks: its handler, its Codelines, and the chunk of
\* the handler's candidates that the block's list is (0: a list of its own)
Block(asm_id, block, chunk) == [asm_id |-> asm_id, block |-> block, chunk |-> chunk]

\* A1xx.__init__: all_code_chunks from the handlers' chunks
CodeChunks(hs) ==
    Flatten([asm_id \in 1..Len(hs) |->
                [c \in 1..Len(get_code_chunks(hs[asm_id])) |->
                    Block(asm_id, get_code_chunks(hs[asm_id])[c], c)]])

\* Preprocessor.get_chunked_codelines: the candidates grouped by source and
\* cut in slices of chunksize
get_chunked_codelines(candidates, chunksize) ==
    LET max_id == CHOOSE m \in {c[1] : c \in Range(candidates)} :
                     \A c \in Range(candidates) : c[1] <= m
        grouped_candidates(asm_id) ==
            LET own == SelectSeq(candidates, LAMBDA c : c[1] = asm_id)
            IN  [i \in 1..Len(own) |-> own[i][2]]
    IN  Flatten([asm_id \in 1..max_id |->
                    LET chunks == Chunked(grouped_candidates(asm_id), chunksize)
                    IN  [c \in 1..Len(chunks) |-> Block(asm_id, chunks[c], 0)]])

PopsFront(policy, n) == {[j \in 1..n |-> 1]}

\* The indexes block.pop() is called with, one per member of a block of n:
\* B pops the front, F the back, R a random member
Pops(policy, n) ==
    CASE policy = "B" -> {[j \in 1..n |-> 1]}
      [] policy = "F" -> {[j \in 1..n |-> n - j + 1]}
      [] policy = "R" -> {p \in [1..n -> 1..n] : \A j \in 1..n : p[j] <= n - j + 1}
      [] OTHER -> {}

RECURSIVE PopAndRemove(_, _, _, _, _)
\* The first loop over a block: pop a member, append it to
\* candidate_codelines, handler.remove it
PopAndRemove(H, chunk, block, picks, removed) ==
    IF picks = <<>> THEN [handler |-> H, candidate_codelines |-> removed]
    ELSE LET codeline == block[Head(picks)]
             rest     == RemoveAt(block, Head(picks))
             popped   == IF chunk = 0 THEN H ELSE [H EXCEPT !.candidates[chunk] = rest]
         IN  PopAndRemove(remove(popped, codeline), chunk, rest, Tail(picks),
                          Append(removed, codeline))

\* The runs of the driver: the source files, the settings, and whether the
\* preprocessor has set all_code_chunks
A1xxRuns ==
    LET one == << FileOf(<< <<"n">>, <<TAB, "a", SP, SP, "x">>, <<"#">>, <<"n">> >>, TRUE) >>
        two == << FileOf(<< <<"n">> >>, TRUE),
                  FileOf(<< <<"n">>, <<TAB, "a", SP, SP, "x">> >>, FALSE) >>
        small == << FileOf(<< <<"n">>, <<TAB, "a", SP, SP, "x">> >>, TRUE) >>
        run(sources, policy, compaction_policy, preprocessing) ==
            [sources |-> sources, a1xx_policy |-> policy, a1xx_segment_dimension |-> 2,
             compaction_policy |-> compaction_policy, preprocessing |-> preprocessing]
    IN  { run(one, "B", "Maximize", FALSE),
          run(two, "F", "Threshold", TRUE),
          run(small, "R", "Threshold", FALSE),
          run(small, "B", "Maximize", TRUE),
          run(small, "B", "Minimize", TRUE),
          run(small, "X", "Maximize", TRUE) }

NoTrialA1xx ==
    [n |-> 0, block |-> 0, asm_id |-> 0, removed |-> <<>>, stage |-> "none",
     verdict |-> "", restores |-> 0, old |-> <<>>, new |-> <<>>, pre |-> <<>>]

\* A1xx constructed, pre_run() returned, run(initial_stl_stats) called
InitA1xx ==
    /\ \E a1xx \in A1xxRuns :
          /\ handlers = [asm_id \in 1..Len(a1xx.sources) |->
                            AssemblyHandler(a1xx.sources[asm_id], a1xx.a1xx_segment_dimension)]
          /\ a1xx_settings = [k \in DOMAIN a1xx \ {"sources"} |-> a1xx[k]]
    /\ all_instructions = FlattenInstructions(handlers)
    /\ all_code_chunks =
          IF a1xx_settings.preprocessing
          THEN get_chunked_codelines(all_instructions, a1xx_settings.a1xx_segment_dimension)
          ELSE CodeChunks(handlers)
    /\ initial_stl_stats \in Tats \X Covs
    /\ pops = FALSE
    /\ hist = NoHist
    /\ pc = "run"
    /\ zoix_compilation_args = TRUE
    /\ old_stl_stats = <<>>
    /\ iteration_stats = <<>>
    /\ stats = <<>>
    /\ trial = NoTrialA1xx
    /\ block_i = 0
    /\ candidate_codelines = <<>>
    /\ trials_left = 0
    /\ NoLsim

BlockForward(i) == i + 1

\* The block the loop is at: blocks[i] of blocks = all_code_chunks[::-1]
BlockAt(i) == Len(all_code_chunks) - i

\* run() up to its loop over the blocks
A1xxRunBegins ==
    /\ pc = "run"
    /\ stats' = <<>>
    /\ iteration_stats' = [fromkeys_a1xx EXCEPT !.tat = <<"int", initial_stl_stats[1]>>,
                                                 !.coverage = <<"float", initial_stl_stats[2]>>]
    /\ old_stl_stats' = initial_stl_stats
    /\ block_i' = 0
    /\ pc' = "block"
    /\ UNCHANGED <<uvars, zvars, hvars, zoix_compilation_args, all_instructions, initial_stl_stats, trial,
                   a1xx_settings, all_code_chunks, candidate_codelines, trials_left>>

\* The next block: all its members are popped and removed from the file
A1xxRemovesBlock ==
    /\ pc = "block"
    /\ block_i < Len(all_code_chunks)
    /\ \E picks \in Pops(a1xx_settings.a1xx_policy,
                         Len(all_code_chunks[BlockAt(block_i)].block)) :
          LET b    == all_code_chunks[BlockAt(block_i)]
              done == PopAndRemove(handlers[b.asm_id], b.chunk, b.block, picks, <<>>)
          IN  /\ handlers' = [handlers EXCEPT ![b.asm_id] = done.handler]
              /\ all_code_chunks' = [all_code_chunks EXCEPT ![BlockAt(block_i)].block = <<>>]
              /\ candidate_codelines' = done.candidate_codelines
              /\ trials_left' = Len(b.block)
    /\ pc' = "trials"
    /\ UNCHANGED <<uvars, zvars, pops, hist, zoix_compilation_args, all_instructions, initial_stl_stats,
                   old_stl_stats, iteration_stats, stats, trial, a1xx_settings, block_i>>

\* log.fatal("Inexistent policy!"); exit(1)
A1xxInexistentPolicy ==
    /\ pc = "block"
    /\ block_i < Len(all_code_chunks)
    /\ a1xx_settings.a1xx_policy \notin {"B", "F", "R"}
    /\ pc' = "exit"
    /\ trial' = [trial EXCEPT !.stage = "a1xx_policy"]
    /\ UNCHANGED <<hvars, zoix_compilation_args, all_instructions, initial_stl_stats,
                   old_stl_stats, iteration_stats, stats, xvars>>

\* str(codeline) of each of the Codelines
Strs(H, codelines) ==
    [j \in 1..Len(codelines) |-> <<H.code[codelines[j]].lineno, H.code[codelines[j]].data>>]

AcceptedNew(compaction_policy, old, new) == new

\* The anchor after an accepted trial
Accepted(compaction_policy, old, new) ==
    IF compaction_policy = "Maximize" THEN new ELSE <<new[1], old[2]>>

OverWhenExhausted(verdict, left) == left = 1

\* The loop over the trials of a block is left: the `break` of an accepted
\* trial, or range(block_instructions) exhausted
Over(verdict, left) == verdict = "Proceed" \/ left = 1

\* One iteration of the loop over the trials of a block, from the statistics
\* update to the `continue`, the `break`, the exit(1) or the end of the body
Trial(stage, row, verdict, new_stl_stats) ==
    LET flush   == any(iteration_stats)
        asm_id  == all_code_chunks[BlockAt(block_i)].asm_id
        started == [(IF flush THEN fromkeys_a1xx ELSE iteration_stats) EXCEPT
                        !.block_index = <<"str", block_i>>,
                        !.asm_source = <<"str", asm_id>>,
                        !.removed_codelines =
                            <<"str", Strs(handlers[asm_id], candidate_codelines)>>]
        over    == Over(verdict, trials_left)
    IN  /\ pc = "trials"
        /\ stats' = IF flush THEN Append(stats, [iter |-> trial.n, row |-> writerow(iteration_stats)])
                    ELSE stats
        /\ iteration_stats' = [k \in header_a1xx |-> IF k \in DOMAIN row THEN row[k] ELSE started[k]]
        /\ candidate_codelines' =
              IF verdict = "Restore"
              THEN SubSeq(candidate_codelines, 1, Len(candidate_codelines) - 1)
              ELSE candidate_codelines
        /\ handlers' = IF verdict = "Restore" THEN [handlers EXCEPT ![asm_id] = restore(@)]
                       ELSE handlers
        /\ old_stl_stats' =
              IF verdict = "Proceed"
              THEN Accepted(a1xx_settings.compaction_policy, old_stl_stats, new_stl_stats)
              ELSE old_stl_stats
        /\ pc' = IF verdict = "exit" THEN "exit" ELSE IF over THEN "block" ELSE "trials"
        /\ block_i' = IF verdict # "exit" /\ over THEN block_i + 1 ELSE block_i
        /\ trials_left' = IF verdict = "exit" THEN trials_left
                          ELSE IF over THEN 0 ELSE trials_left - 1
        /\ trial' = [n |-> trial.n + 1, block |-> block_i, asm_id |-> asm_id,
                     removed |-> candidate_codelines, stage |-> stage, verdict |-> verdict,
                     restores |-> IF verdict = "Restore" THEN 1 ELSE 0,
                     old |-> old_stl_stats, new |-> new_stl_stats, pre |-> handlers]
        /\ UNCHANGED <<uvars, zvars, pops, hist, zoix_compilation_args, all_instructions, initial_stl_stats,
                       a1xx_settings, all_code_chunks>>

TrialAsmCompileFails ==
    Trial("asm_compile",
          [compiles |-> <<"str", "NO">>, verdict |-> <<"str", "Restore">>],
          "Restore", <<>>)

TrialHdlCompileError ==
    /\ zoix_compilation_args
    /\ Trial("hdl_compile", <<>>, "exit", <<>>)

TrialLsimRaises ==
    Trial("lsim_exception", <<>>, "exit", <<>>)

TrialLsimFails(lsim) ==
    Trial("lsim",
          [compiles |-> YES, lsim_ok |-> NO(lsim), verdict |-> <<"str", "Restore">>],
          "Restore", <<>>)

TrialFsimFails(test_application_time, fsim) ==
    Trial("fsim",
          [compiles |-> YES, lsim_ok |-> YES,
           tat |-> <<"str", test_application_time[1]>>,
           fsim_ok |-> NO(fsim), verdict |-> <<"str", "Restore">>],
          "Restore", <<>>)

\* both simulations succeed: the evaluation against the anchor, and the
\* compaction policy when the trial is accepted
TrialEvaluates(test_application_time, coverage) ==
    LET new_stl_stats == <<pop_first(test_application_time), coverage>>
        simulated == [compiles |-> YES, lsim_ok |-> YES,
                      tat |-> <<"str", test_application_time[1]>>,
                      fsim_ok |-> YES, coverage |-> <<"str", coverage>>]
        verdict ==
            IF evaluate(old_stl_stats, new_stl_stats)
            THEN IF a1xx_settings.compaction_policy \in {"Maximize", "Threshold"}
                 THEN "Proceed" ELSE "exit"
            ELSE "Restore"
    IN  Trial(IF verdict = "exit" THEN "compaction_policy" ELSE "evaluate",
              IF verdict = "exit" THEN simulated
              ELSE [k \in DOMAIN simulated \cup {"verdict"} |->
                       IF k = "verdict" THEN <<"str", verdict>> ELSE simulated[k]],
              verdict, new_stl_stats)

\* the loop over the blocks ends: the last row is written
A1xxRunReturns ==
    /\ pc = "block"
    /\ block_i = Len(all_code_chunks)
    /\ stats' = IF any(iteration_stats)
                THEN Append(stats, [iter |-> trial.n, row |-> writerow(iteration_stats)])
                ELSE stats
    /\ iteration_stats' = IF any(iteration_stats) THEN fromkeys_a1xx ELSE iteration_stats
    /\ pc' = "done"
    /\ UNCHANGED <<hvars, zoix_compilation_args, all_instructions, initial_stl_stats,
                   old_stl_stats, trial, xvars>>

NextA1xx ==
    \/ A1xxRunBegins
    \/ A1xxRemovesBlock
    \/ A1xxInexistentPolicy
    \/ TrialAsmCompileFails
    \/ TrialHdlCompileError
    \/ TrialLsimRaises
    \/ \E lsim \in LsimFailures : TrialLsimFails(lsim)
    \/ \E test_application_time \in TatValues, fsim \in FsimFailures :
          TrialFsimFails(test_application_time, fsim)
    \/ \E test_application_time \in TatValues, coverage \in Covs :
          TrialEvaluates(test_application_time, coverage)
    \/ A1xxRunReturns

SpecA1xx == InitA1xx /\ [][NextA1xx]_vars

-----------------------------------------------------------------------------
(* Properties of the A1xx driver *)

\* The blocks as __init__ or the preprocessor built them
InitialBlocks == get_chunked_codelines(all_instructions, a1xx_settings.a1xx_segment_dimension)

\* The block of the i-th pass of the loop, as it was built
InitialBlock(i) == InitialBlocks[Len(InitialBlocks) - i].block

\* C14: after an accepted trial the anchor is (tat_new, cov_new) under
\* Maximize and (tat_new, cov_old) under Threshold; after a rejected trial it
\* is the anchor of before; under Threshold the coverage of the anchor is the
\* coverage of the baseline throughout the run.
C14_AnchorPerPolicy ==
    /\ trial.n > 0 =>
          old_stl_stats =
             IF trial.verdict = "Proceed"
             THEN IF a1xx_settings.compaction_policy = "Maximize" THEN trial.new
                  ELSE <<trial.new[1], trial.old[2]>>
             ELSE trial.old
    /\ (pc # "run" /\ a1xx_settings.compaction_policy = "Threshold") =>
          old_stl_stats[2] = initial_stl_stats[2]
    /\ (trial.n > 0 /\ trial.verdict = "Proceed") =>
          a1xx_settings.compaction_policy \in {"Maximize", "Threshold"}

\* a second accepted trial under Threshold whose coverage is above the baseline's
C14_Witness ==
    /\ a1xx_settings.compaction_policy = "Threshold"
    /\ trial.verdict = "Proceed"
    /\ \E i \in 1..Len(stats) : stats[i].row.verdict = <<"str", "Proceed">>
    /\ trial.new[2] > initial_stl_stats[2]
    /\ old_stl_stats = <<trial.new[1], initial_stl_stats[2]>>

\* C16: the i-th pass of the loop is on the i-th block from the end of the
\* chunk list, passes follow each other in that order, and the codelines
\* removed for a trial are the first members of the block in policy order
\* (B: from the front of the block, F: from its end).
C16_ReverseBlocksPolicyOrder ==
    [][trial'.n = trial.n + 1 =>
          LET b == InitialBlocks[Len(InitialBlocks) - trial'.block]
              n == Len(b.block)
              m == Len(trial'.removed)
          IN  /\ trial.n = 0 => trial'.block = 0
              /\ trial.n > 0 => trial'.block \in {trial.block, trial.block + 1}
              /\ trial'.asm_id = b.asm_id
              /\ m \in 1..n
              /\ Range(trial'.removed) \subseteq Range(b.block)
              /\ a1xx_settings.a1xx_policy = "B" => trial'.removed = SubSeq(b.block, 1, m)
              /\ a1xx_settings.a1xx_policy = "F" =>
                    trial'.removed = [j \in 1..m |-> b.block[n - j + 1]]]_vars

\* under B the block at the front of the chunk list is attempted after the
\* block at its end, its two members removed front first
C16_Witness ==
    /\ a1xx_settings.a1xx_policy = "B"
    /\ Len(InitialBlocks) = 2
    /\ trial.block = 1
    /\ trial.removed = InitialBlocks[1].block
    /\ Len(trial.removed) = 2
    /\ trial.removed[1] < trial.removed[2]

\* C17: the trial after an accepted one is on the next block; the trial
\* after a rejected one is on the same block, with the last removed codeline
\* restored, unless the rejected trial had one codeline removed, and then it
\* is on the next block; an accepted trial leaves the loop over the trials of
\* its block and a rejected one with several codelines removed stays in it;
\* every step in that loop is a trial; the k-th trial on a block of n members
\* has n - k + 1 codelines removed, k in 1..n.
C17_TrialsOfABlock ==
    [][/\ (trial'.n = trial.n + 1 /\ trial.n > 0) =>
            /\ trial.verdict \in {"Proceed", "Restore"}
            /\ trial.verdict = "Proceed" => trial'.block = trial.block + 1
            /\ (trial.verdict = "Restore" /\ Len(trial.removed) = 1) =>
                  trial'.block = trial.block + 1
            /\ (trial.verdict = "Restore" /\ Len(trial.removed) > 1) =>
                  /\ trial'.block = trial.block
                  /\ trial'.removed = SubSeq(trial.removed, 1, Len(trial.removed) - 1)
                  /\ trial'.pre[trial.asm_id] = restore(trial.pre[trial.asm_id])
       /\ (trial'.n = trial.n + 1 /\ (trial'.block # trial.block \/ trial.n = 0)) =>
               Len(trial'.removed) = Len(InitialBlock(trial'.block))
       /\ trial'.n > 0 => Len(trial'.removed) \in 1..Len(InitialBlock(trial'.block))
       /\ (trial'.n = trial.n + 1 /\ trial'.verdict = "Proceed") =>
               pc' \in {"block", "done"} /\ block_i' = trial'.block + 1
       /\ (trial'.n = trial.n + 1 /\ trial'.verdict = "Restore" /\ Len(trial'.removed) > 1) =>
               pc' = "trials" /\ block_i' = trial'.block /\ trials_left' > 0
       /\ pc = "trials" => trial'.n = trial.n + 1]_vars

\* the first trial on a block of two members is accepted, and the driver is
\* in the trials of the next block
C17_Witness ==
    /\ trial.verdict = "Proceed"
    /\ Len(InitialBlock(trial.block)) = 2
    /\ Len(trial.removed) = 2
    /\ pc = "trials"
    /\ block_i = trial.block + 1

\* C18 as stated: under F the member next to the back-most one of a block is
\* never among the codelines removed for a trial.
C18_NextBackMostDiscarded ==
    (trial.n > 0 /\ a1xx_settings.a1xx_policy = "F" /\ Len(InitialBlock(trial.block)) >= 2) =>
        InitialBlock(trial.block)[Len(InitialBlock(trial.block)) - 1] \notin Range(trial.removed)

\* C18: under F, when the loop is in the trials of a block, the block's list
\* is empty and the codelines removed are the members of the block from its
\* end, as many as there are trials left, each at the end of the change log
\* of the handler in that order: none is discarded without being removed.
C18_BackFirstNoneDiscarded ==
    (pc = "trials" /\ a1xx_settings.a1xx_policy = "F") =>
        LET b   == InitialBlocks[Len(InitialBlocks) - block_i]
            n   == Len(b.block)
            log == handlers[b.asm_id].asm_file_changelog
        IN  /\ all_code_chunks[BlockAt(block_i)].block = <<>>
            /\ Len(candidate_codelines) = trials_left
            /\ candidate_codelines = [j \in 1..trials_left |-> b.block[n - j + 1]]
            /\ Len(log) >= trials_left
            /\ SubSeq(log, Len(log) - trials_left + 1, Len(log)) = candidate_codelines

\* under F a block of two members has both removed before its first trial
C18_Witness ==
    /\ pc = "trials"
    /\ a1xx_settings.a1xx_policy = "F"
    /\ trials_left = 2
    /\ Len(InitialBlock(block_i)) = 2
    /\ Len(candidate_codelines) = 2

-----------------------------------------------------------------------------
(* ZoixInvoker.logic_simulate *)

\* What execute returns when the instruction times out, as stdout and stderr
TimeoutExpired == "TimeoutExpired"

\* The lines an instruction prints: whether success_regexp matches the line,
\* and what tat_regexp captures in it: nothing, an integer, or a text that
\* int() rejects
Lines ==
    [text : {"line"}, ok : BOOLEAN,
     tat : {None, <<"int", 0>>, <<"int", MaxTat>>, <<"text">>}]

\* stdout.splitlines() of a timed out instruction
TimeoutLines == << [text |-> TimeoutExpired, ok |-> FALSE, tat |-> None] >>

\* The streams execute can return: stdout as the sequence of its lines
Stdouts == {<<>>} \cup {<<l>> : l \in Lines} \cup {<<l, m>> : l, m \in Lines} \cup {TimeoutLines}

Stderrs == {"", "stderr has text!", TimeoutExpired}

RECURSIVE Scan(_, _)
\* The loop over stdout.splitlines(): the flags and tat_value after it, and
\* whether it raised LogicSimulationException
Scan(lines, s) ==
    IF lines = <<>> THEN s
    ELSE LET line    == Head(lines)
             matched == [s EXCEPT !.exit_success = @ \/ line.ok]
         IN  IF line.tat # None /\ line.tat[1] # "int"
             THEN [matched EXCEPT !.raised = TRUE]
             ELSE LET captured ==
                          IF line.tat = None THEN matched
                          ELSE [matched EXCEPT !.tat_value = Append(@, line.tat[2]),
                                               !.tat_success = TRUE]
                  IN  IF captured.tat_success /\ captured.exit_success THEN captured
                      ELSE Scan(Tail(lines), captured)

StatusAny(tat, exit, status) ==
    IF tat \/ exit THEN "SUCCESS" ELSE IF status # "TIMEOUT" THEN "ERROR" ELSE status

\* The status logic_simulate returns, after its loop over the instructions
Status(tat, exit, status) ==
    IF tat /\ exit THEN "SUCCESS"
    ELSE IF status # "TIMEOUT" THEN "ERROR"
    ELSE status

NoExecution == [n |-> 0, last |-> "none", printed |-> {}, stderrs |-> {}, timeouts |-> 0]

\* logic_simulate(*instructions, **kwargs) is called with an empty tat_value
InitLsim ==
    /\ instructions \in 0..MaxCmds
    /\ executed = NoExecution
    /\ exit_success = FALSE
    /\ tat_success = FALSE
    /\ tat_value = <<>>
    /\ simulation_status = "None"
    /\ pc = "lsim"
    /\ handlers = <<>>
    /\ pops = FALSE
    /\ hist = NoHist
    /\ zoix_compilation_args = FALSE
    /\ all_instructions = <<>>
    /\ initial_stl_stats = <<>>
    /\ old_stl_stats = <<>>
    /\ iteration_stats = <<>>
    /\ stats = <<>>
    /\ trial = NoTrial
    /\ a1xx_settings = <<>>
    /\ all_code_chunks = <<>>
    /\ block_i = 0
    /\ candidate_codelines = <<>>
    /\ trials_left = 0
    /\ NoToolsBut("logic_simulate")

\* One pass of the loop over the instructions: execute returns stdout and
\* stderr
Execute(stdout, stderr) ==
    LET scanned == Scan(stdout, [exit_success |-> exit_success, tat_success |-> tat_success,
                                 tat_value |-> tat_value, raised |-> FALSE])
        error   == stderr # "" /\ stderr # TimeoutExpired
        expired == ~error /\ stderr = TimeoutExpired /\ stdout = TimeoutLines
    IN  /\ pc = "lsim"
        /\ executed.n < instructions
        /\ executed' = [n |-> executed.n + 1,
                        last |-> IF error THEN "error" ELSE IF expired THEN "timeout"
                                 ELSE "scanned",
                        printed |-> executed.printed \cup Range(stdout),
                        stderrs |-> executed.stderrs \cup {stderr},
                        timeouts |-> executed.timeouts + IF expired THEN 1 ELSE 0]
        /\ IF error
           THEN /\ simulation_status' = "ERROR"
                /\ pc' = "lsim_break"
                /\ UNCHANGED <<exit_success, tat_success, tat_value>>
           ELSE IF expired
           THEN /\ simulation_status' = "TIMEOUT"
                /\ pc' = "lsim_break"
                /\ UNCHANGED <<exit_success, tat_success, tat_value>>
           ELSE /\ exit_success' = scanned.exit_success
                /\ tat_success' = scanned.tat_success
                /\ tat_value' = scanned.tat_value
                /\ pc' = IF scanned.raised THEN "lsim_raised" ELSE "lsim"
                /\ UNCHANGED simulation_status
        /\ UNCHANGED <<uvars, hvars, zoix_compilation_args, all_instructions, initial_stl_stats,
                       old_stl_stats, iteration_stats, stats, trial, a1xx_settings,
                       all_code_chunks, block_i, candidate_codelines, trials_left, instructions>>

\* The loop is left, by a `break` or at the end of the instructions
LsimReturns ==
    /\ pc = "lsim_break" \/ (pc = "lsim" /\ executed.n = instructions)
    /\ simulation_status' = Status(tat_success, exit_success, simulation_status)
    /\ pc' = "lsim_returned"
    /\ UNCHANGED <<uvars, hvars, zoix_compilation_args, all_instructions, initial_stl_stats,
                   old_stl_stats, iteration_stats, stats, trial, a1xx_settings,
                   all_code_chunks, block_i, candidate_codelines, trials_left,
                   instructions, executed, exit_success, tat_success, tat_value>>

NextLsim ==
    \/ \E stdout \in Stdouts, stderr \in Stderrs : Execute(stdout, stderr)
    \/ LsimReturns

SpecLsim == InitLsim /\ [][NextLsim]_vars

-----------------------------------------------------------------------------
(* Properties of logic_simulate *)

\* C19: when an executed instruction wrote something other than the timeout
\* sentinel to stderr, logic_simulate returns SIM_ERROR, and when one timed
\* out it returns TIMEOUT, whatever the instructions before it printed; the
\* loop over the instructions is left at that instruction.
C19_FailureDecides ==
    /\ (executed.last \in {"error", "timeout"}) => pc \in {"lsim_break", "lsim_returned"}
    /\ (pc = "lsim_returned" /\ executed.stderrs \ {"", TimeoutExpired} # {}) =>
          simulation_status = "ERROR"
    /\ (pc = "lsim_returned" /\ executed.timeouts > 0) => simulation_status = "TIMEOUT"

\* A success line, and a line with an integer test application time, among
\* the lines the executed instructions printed
OkPrinted == \E l \in executed.printed : l.ok

TatPrinted == \E l \in executed.printed : l.tat # None /\ l.tat[1] = "int"

\* C20: when logic_simulate returns and no instruction wrote to stderr or
\* timed out, the status is SUCCESS if a printed line matched the success
\* regexp and a printed line matched the time regexp with an integer, and
\* SIM_ERROR if not, as it is for no instruction at all; the integers
\* captured are in tat_value.
C20_SuccessIffBothMatched ==
    (pc = "lsim_returned" /\ executed.stderrs \subseteq {""} /\ executed.timeouts = 0) =>
        /\ simulation_status = "SUCCESS" <=> (OkPrinted /\ TatPrinted)
        /\ simulation_status \in {"SUCCESS", "ERROR"}
        /\ instructions = 0 => simulation_status = "ERROR"
        /\ TatPrinted <=> tat_value # <<>>
        /\ \A i \in DOMAIN tat_value :
              \E l \in executed.printed : l.tat = <<"int", tat_value[i]>>

\* two instructions, no stderr: the time is captured twice before the
\* success line is met, and the status is SUCCESS
C20_Witness ==
    /\ pc = "lsim_returned"
    /\ executed.n = 2
    /\ executed.stderrs = {""}
    /\ simulation_status = "SUCCESS"
    /\ Len(tat_value) = 2

-----------------------------------------------------------------------------
(* ZoixInvoker.fault_simulate *)

\* The compiled patterns allow_regexs can hold, and the stderr texts in which
\* re.search finds each of them
Regexps == {"Stderr text but must be ignored\\!", "Expired"}

Matches ==
    [regexp \in Regexps |->
        IF regexp = "Expired" THEN {TimeoutExpired}
        ELSE {"Stderr text but must be ignored!"}]

search(regexp, stderr) == stderr \in Matches[regexp]

FsimStdouts == {"Some fault sim text", TimeoutExpired}

FsimStderrs == {"", "Stderr text but must be ignored!", "Stderr has text!", TimeoutExpired}

AllowedAny(stderr) == allow # {}

\* The loop over allow_regexs: continue_execution after it. An allow_regexs
\* of None and an empty one are both the empty set
Allowed(stderr) == allow # {} /\ \E regexp \in allow : search(regexp, stderr)

\* fault_simulate(*instructions, **kwargs) is called
InitFsim ==
    /\ instructions \in 0..MaxCmds
    /\ allow \in SUBSET Regexps
    /\ executed = <<>>
    /\ fault_simulation_status = "SUCCESS"
    /\ pc = "fsim"
    /\ exit_success = FALSE
    /\ tat_success = FALSE
    /\ tat_value = <<>>
    /\ simulation_status = "None"
    /\ handlers = <<>>
    /\ pops = FALSE
    /\ hist = NoHist
    /\ zoix_compilation_args = FALSE
    /\ all_instructions = <<>>
    /\ initial_stl_stats = <<>>
    /\ old_stl_stats = <<>>
    /\ iteration_stats = <<>>
    /\ stats = <<>>
    /\ trial = NoTrial
    /\ a1xx_settings = <<>>
    /\ all_code_chunks = <<>>
    /\ block_i = 0
    /\ candidate_codelines = <<>>
    /\ trials_left = 0
    /\ NoToolsBut("fault_simulate")

\* The variables of the drivers, which the functions modelled on their own
\* leave alone
idle == <<hvars, zoix_compilation_args, all_instructions, initial_stl_stats, old_stl_stats,
          iteration_stats, stats, trial, a1xx_settings, all_code_chunks, block_i,
          candidate_codelines, trials_left, exit_success, tat_success, tat_value,
          simulation_status>>

\* One pass of the loop over the instructions: execute returns stdout and
\* stderr
FsimExecutes(stdout, stderr) ==
    /\ pc = "fsim"
    /\ Len(executed) < instructions
    /\ executed' = Append(executed, <<stdout, stderr>>)
    /\ IF stderr # "" /\ stderr # TimeoutExpired
       THEN IF Allowed(stderr)
            THEN UNCHANGED <<pc, fault_simulation_status>>
            ELSE /\ fault_simulation_status' = "ERROR"
                 /\ pc' = "fsim_break"
       ELSE IF stderr = stdout /\ stdout = TimeoutExpired
       THEN /\ fault_simulation_status' = "TIMEOUT"
            /\ pc' = "fsim_break"
       ELSE UNCHANGED <<pc, fault_simulation_status>>
    /\ UNCHANGED <<idle, instructions, allow>>
    /\ ToolsUnchangedBut("fault_simulate")

\* The loop is left, by a `break` or at the end of the instructions
FsimReturns ==
    /\ pc = "fsim_break" \/ (pc = "fsim" /\ Len(executed) = instructions)
    /\ pc' = "fsim_returned"
    /\ UNCHANGED <<idle, instructions, executed, fvars>>
    /\ ToolsUnchangedBut("fault_simulate")

NextFsim ==
    \/ \E stdout \in FsimStdouts, stderr \in FsimStderrs : FsimExecutes(stdout, stderr)
    \/ FsimReturns

SpecFsim == InitFsim /\ [][NextFsim]_vars

-----------------------------------------------------------------------------
(* Properties of fault_simulate *)

\* The command timed out: execute returned the sentinel as both streams
TimedOut(streams) == streams[1] = TimeoutExpired /\ streams[2] = TimeoutExpired

\* The command wrote to stderr a text that no pattern of allow_regexs is
\* found in
Unexpected(streams) ==
    /\ ~TimedOut(streams)
    /\ streams[2] # ""
    /\ \A regexp \in allow : ~search(regexp, streams[2])

UnexpectedText(streams) == Unexpected(streams) /\ streams[2] # TimeoutExpired

-----------------------------------------------------------------------------
(* compile_assembly and ZoixInvoker.compile_sources *)

\* The messages a compiler writes to stderr, and those of them in which
\* re.search("warning", ..., re.IGNORECASE) finds a match
Messages == {"Warning: unused label", "Error: unknown opcode"}

WarningMessages == {"Warning: unused label"}

\* The stderr of an instruction: the sequence of the messages written
CompileStderrs == {<<>>} \cup {<<m>> : m \in Messages} \cup {<<m, n>> : m, n \in Messages}

\* re.search("warning", stderr, re.IGNORECASE)
search_warning(stderr) == \E i \in DOMAIN stderr : stderr[i] \in WarningMessages

\* The test of compile_assembly on the stderr of an instruction
AssemblyFails(stderr) == stderr # <<>> /\ ~search_warning(stderr)

\* The test of compile_sources on the stderr of an instruction
SourcesFail(stderr) == stderr # <<>>

\* compile_assembly(*instructions, exit_on_error) or
\* compile_sources(*instructions) is called
InitCompile ==
    /\ pc \in {"compile_assembly", "compile_sources"}
    /\ instructions \in 0..MaxCmds
    /\ executed = <<>>
    /\ exit_on_error \in (IF pc = "compile_assembly" THEN BOOLEAN ELSE {FALSE})
    /\ asm_compilation = "None"
    /\ compilation_status = IF pc = "compile_sources" THEN "SUCCESS" ELSE "None"
    /\ exit_success = FALSE
    /\ tat_success = FALSE
    /\ tat_value = <<>>
    /\ simulation_status = "None"
    /\ handlers = <<>>
    /\ pops = FALSE
    /\ hist = NoHist
    /\ zoix_compilation_args = FALSE
    /\ all_instructions = <<>>
    /\ initial_stl_stats = <<>>
    /\ old_stl_stats = <<>>
    /\ iteration_stats = <<>>
    /\ stats = <<>>
    /\ trial = NoTrial
    /\ a1xx_settings = <<>>
    /\ all_code_chunks = <<>>
    /\ block_i = 0
    /\ candidate_codelines = <<>>
    /\ trials_left = 0
    /\ NoToolsBut("compile")

\* One pass of the loop of compile_assembly: the instruction writes stderr
AssemblyExecutes(stderr) ==
    /\ pc = "compile_assembly"
    /\ Len(executed) < instructions
    /\ executed' = Append(executed, stderr)
    /\ IF AssemblyFails(stderr)
       THEN IF exit_on_error
            THEN /\ asm_compilation' = "SystemExit"
                 /\ pc' = "exit"
            ELSE /\ asm_compilation' = "False"
                 /\ pc' = "compile_returned"
       ELSE UNCHANGED <<pc, asm_compilation>>
    /\ UNCHANGED <<idle, instructions, exit_on_error, compilation_status>>
    /\ ToolsUnchangedBut("compile")

\* The loop of compile_assembly ends
AssemblyReturns ==
    /\ pc = "compile_assembly"
    /\ Len(executed) = instructions
    /\ asm_compilation' = "True"
    /\ pc' = "compile_returned"
    /\ UNCHANGED <<idle, instructions, executed, exit_on_error, compilation_status>>
    /\ ToolsUnchangedBut("compile")

\* One pass of the loop of compile_sources: execute returns stderr
SourcesExecutes(stderr) ==
    /\ pc = "compile_sources"
    /\ Len(executed) < instructions
    /\ executed' = Append(executed, stderr)
    /\ IF SourcesFail(stderr)
       THEN /\ compilation_status' = "ERROR"
            /\ pc' = "compile_break"
       ELSE UNCHANGED <<pc, compilation_status>>
    /\ UNCHANGED <<idle, instructions, exit_on_error, asm_compilation>>
    /\ ToolsUnchangedBut("compile")

\* The loop of compile_sources is left, by `break` or at its end
SourcesReturns ==
    /\ pc = "compile_break" \/ (pc = "compile_sources" /\ Len(executed) = instructions)
    /\ pc' = "compile_returned"
    /\ UNCHANGED <<idle, instructions, executed, cvars>>
    /\ ToolsUnchangedBut("compile")

NextCompile ==
    \/ \E stderr \in CompileStderrs : AssemblyExecutes(stderr)
    \/ AssemblyReturns
    \/ \E stderr \in CompileStderrs : SourcesExecutes(stderr)
    \/ SourcesReturns

SpecCompile == InitCompile /\ [][NextCompile]_vars

-----------------------------------------------------------------------------
(* Properties of the compilations *)

\* The stderr holds a message that is not a warning
NotPurelyWarnings(stderr) == \E i \in DOMAIN stderr : stderr[i] \notin WarningMessages

\* C22: a compilation runs its commands in order; the first command whose
\* stderr holds a message that is not a warning makes it fail, and no
\* command after it is executed; a stderr of warnings only does not make
\* it fail.
C22_OnlyNonWarningsFail ==
    /\ \A i \in 1..(Len(executed) - 1) : ~NotPurelyWarnings(executed[i])
    /\ pc \in {"compile_returned", "exit"} =>
          LET failed == \E i \in DOMAIN executed : NotPurelyWarnings(executed[i])
          IN  /\ failed <=> (asm_compilation \in {"False", "SystemExit"}
                             \/ compilation_status = "ERROR")
              /\ ~failed => Len(executed) = instructions

-----------------------------------------------------------------------------
(* ZoixInvoker.execute *)

\* The processes of an instruction: the /bin/bash child that Popen spawns,
\* and a process that the child forks
Roles == {"child", "descendant"}

Process(cmd, role) == [cmd |-> cmd, role |-> role]

\* The live processes of the n-th instruction
ProcessesOf(n) == {p \in processes : p.cmd = n}

\* execute(instruction, timeout) is called for each of the instructions in
\* turn, as the simulations do
InitExecute ==
    /\ pc = "execute"
    /\ instructions \in 1..MaxCmds
    /\ timeout \in {"None", "1.0"}
    /\ processes = {}
    /\ executed = <<>>
    /\ exit_success = FALSE
    /\ tat_success = FALSE
    /\ tat_value = <<>>
    /\ simulation_status = "None"
    /\ handlers = <<>>
    /\ pops = FALSE
    /\ hist = NoHist
    /\ zoix_compilation_args = FALSE
    /\ all_instructions = <<>>
    /\ initial_stl_stats = <<>>
    /\ old_stl_stats = <<>>
    /\ iteration_stats = <<>>
    /\ stats = <<>>
    /\ trial = NoTrial
    /\ a1xx_settings = <<>>
    /\ all_code_chunks = <<>>
    /\ block_i = 0
    /\ candidate_codelines = <<>>
    /\ trials_left = 0
    /\ NoToolsBut("execute")

\* subprocess.Popen(["/bin/bash", "-c", instruction], ...)
Popen ==
    /\ pc = "execute"
    /\ Len(executed) < instructions
    /\ processes' = processes \cup {Process(Len(executed) + 1, "child")}
    /\ pc' = "communicate"
    /\ UNCHANGED <<idle, instructions, executed, timeout>>
    /\ ToolsUnchangedBut("execute")

\* The child forks a process, which inherits its pipes
Forks ==
    /\ pc = "communicate"
    /\ Process(Len(executed) + 1, "child") \in processes
    /\ processes' = processes \cup {Process(Len(executed) + 1, "descendant")}
    /\ processes' # processes
    /\ UNCHANGED <<idle, pc, instructions, executed, timeout>>
    /\ ToolsUnchangedBut("execute")

\* A process ends by itself
Exits(p) ==
    /\ p \in processes
    /\ processes' = processes \ {p}
    /\ UNCHANGED <<idle, pc, instructions, executed, timeout>>
    /\ ToolsUnchangedBut("execute")

\* process.communicate(timeout=timeout) returns what the instruction wrote:
\* the pipes are at their end
CommunicateReturns(stdout, stderr) ==
    /\ pc = "communicate"
    /\ ProcessesOf(Len(executed) + 1) = {}
    /\ executed' = Append(executed, <<stdout, stderr>>)
    /\ pc' = "execute"
    /\ UNCHANGED <<idle, instructions, timeout, processes>>
    /\ ToolsUnchangedBut("execute")

\* The processes that process.kill() ends: the child
Kills(n) == {Process(n, "child")}

\* process.communicate raises subprocess.TimeoutExpired: the child is killed
\* and the sentinel is returned
CommunicateTimesOut ==
    /\ pc = "communicate"
    /\ timeout # "None"
    /\ ProcessesOf(Len(executed) + 1) # {}
    /\ processes' = processes \ Kills(Len(executed) + 1)
    /\ executed' = Append(executed, <<TimeoutExpired, TimeoutExpired>>)
    /\ pc' = "execute"
    /\ UNCHANGED <<idle, instructions, timeout>>
    /\ ToolsUnchangedBut("execute")

NextExecute ==
    \/ Popen
    \/ Forks
    \/ \E n \in 1..MaxCmds, role \in Roles : Exits(Process(n, role))
    \/ \E stdout \in FsimStdouts, stderr \in Stderrs : CommunicateReturns(stdout, stderr)
    \/ CommunicateTimesOut

SpecExecute == InitExecute /\ [][NextExecute]_vars

-----------------------------------------------------------------------------
(* Properties of execute *)

\* C23: an instruction that exceeds its timeout yields the sentinel pair, and
\* from the return of execute on no process that the instruction spawned is
\* alive, neither the child nor a process the child forked.
C23_TimeoutKillsAll ==
    /\ [][CommunicateTimesOut =>
            executed'[Len(executed')] = <<TimeoutExpired, TimeoutExpired>>]_vars
    /\ [](\A n \in DOMAIN executed :
            executed[n] = <<TimeoutExpired, TimeoutExpired>> => ProcessesOf(n) = {})

-----------------------------------------------------------------------------
(* Preprocessor.query_trace_db *)

MaxRows == 3

MaxHistory == 2

\* The columns of the table, and the values a row has in them
Columns == {"PC", "Time"}

\* The simulation times of the rows, in ascending order
Times == <<"10ns", "60ns">>

ColumnValues == [PC |-> {"00000004", "0000004c"}, Time |-> Range(Times)]

TraceRows == [PC : ColumnValues["PC"], Time : ColumnValues["Time"]]

\* The tables create_trace_db can build: one row per line of the trace, the
\* lines of a trace being in the order of their time
Traces ==
    LET at(row) == CHOOSE i \in DOMAIN Times : Times[i] = row.Time
    IN  {rows \in UNION {[1..n -> TraceRows] : n \in 0..MaxRows} :
            \A i \in 1..(Len(rows) - 1) : at(rows[i]) <= at(rows[i + 1])}

\* The dictionaries `where` can be: values for some of the columns
Wheres ==
    UNION {[cols -> UNION {ColumnValues[c] : c \in Columns}] : cols \in SUBSET Columns \ {{}}}

RECURSIVE RowidsUpTo(_, _, _)
\* SELECT ROWID FROM trace WHERE col = ? AND ..., over the first n rows
RowidsUpTo(rows, where, n) ==
    IF n = 0 THEN <<>>
    ELSE LET before == RowidsUpTo(rows, where, n - 1)
         IN  IF \A col \in DOMAIN where : rows[n][col] = where[col]
             THEN Append(before, n)
             ELSE before

Rowids(rows, where) == RowidsUpTo(rows, where, Len(rows))

\* SELECT select FROM trace WHERE ROWID <= rowid ORDER BY ROWID DESC LIMIT history
QueryWithHistory(rows, select, rowid, history) ==
    [k \in 1..(IF rowid < history THEN rowid ELSE history) |-> <<rows[rowid + 1 - k][select]>>]

Unsliced(list) == list

\* list[::-1]
Backwards(list) == [k \in 1..Len(list) |-> list[Len(list) + 1 - k]]

\* What query_trace_db returns, or the exception it raises. The query with
\* history is executed once, after the loop over rowids, for the rowid the
\* loop ended with
query_trace_db(rows, select, where, history, allow_multiple) ==
    LET rowids == Rowids(rows, where)
    IN  IF rowids = <<>>
        THEN [raised |-> "ValueError: No row found", rows |-> <<>>]
        ELSE IF Len(rowids) > 1 /\ ~allow_multiple
        THEN [raised |-> "ValueError: Query resulted in multiple ROWIDs", rows |-> <<>>]
        ELSE LET rowid == rowids[Len(rowids)]
             IN  [raised |-> "None",
                  rows |-> <<>> \o Backwards(QueryWithHistory(rows, select, rowid, history))]

\* query_trace_db(select, where, history, allow_multiple) is called on a
\* database that exists
InitQuery ==
    /\ pc = "query_trace_db"
    /\ trace \in Traces
    /\ query \in [select : Columns, where : Wheres, history : 1..MaxHistory,
                  allow_multiple : BOOLEAN]
    /\ result = <<>>
    /\ fault_list = <<>>
    /\ elf = <<>>
    /\ removed_lines = <<>>
    /\ instructions = 0
    /\ executed = <<>>
    /\ exit_success = FALSE
    /\ tat_success = FALSE
    /\ tat_value = <<>>
    /\ simulation_status = "None"
    /\ handlers = <<>>
    /\ pops = FALSE
    /\ hist = NoHist
    /\ zoix_compilation_args = FALSE
    /\ all_instructions = <<>>
    /\ initial_stl_stats = <<>>
    /\ old_stl_stats = <<>>
    /\ iteration_stats = <<>>
    /\ stats = <<>>
    /\ trial = NoTrial
    /\ a1xx_settings = <<>>
    /\ all_code_chunks = <<>>
    /\ block_i = 0
    /\ candidate_codelines = <<>>
    /\ trials_left = 0
    /\ NoToolsBut("Preprocessor")

QueryReturns ==
    /\ pc = "query_trace_db"
    /\ result' = query_trace_db(trace, query.select, query.where, query.history,
                                query.allow_multiple)
    /\ pc' = IF result'.raised = "None" THEN "query_returned" ELSE "query_raised"
    /\ UNCHANGED <<idle, instructions, executed, trace, query, fault_list, elf,
                   removed_lines>>
    /\ ToolsUnchangedBut("Preprocessor")

NextQuery == QueryReturns

SpecQuery == InitQuery /\ [][NextQuery]_vars

-----------------------------------------------------------------------------
(* Properties of query_trace_db *)

\* The rows that match the where-conjunction
Matched == {r \in DOMAIN trace : \A col \in DOMAIN query.where : trace[r][col] = query.where[col]}

\* The select values of the rows r-history+1 ... r, from the first row on
WindowOf(r) ==
    LET first == IF r < query.history THEN 1 ELSE r - query.history + 1
    IN  [k \in 1..(r - first + 1) |-> <<trace[first + k - 1][query.select]>>]

\* C24: when exactly one row r matches, the query returns the select values
\* of the rows r-history+1 ... r in ascending row order, the matched row
\* last: history of them whenever r >= history.
C24_WindowOfTheMatch ==
    (pc # "query_trace_db" /\ Cardinality(Matched) = 1) =>
        LET r == CHOOSE m \in Matched : TRUE
        IN  /\ pc = "query_returned"
            /\ result.rows = WindowOf(r)
            /\ result.rows[Len(result.rows)] = <<trace[r][query.select]>>
            /\ r >= query.history => Len(result.rows) = query.history

\* the third row is the only match, and its window of two holds the values
\* of the second and third rows, which differ
C24_Witness ==
    /\ pc = "query_returned"
    /\ Matched = {3}
    /\ query.history = 2
    /\ Len(result.rows) = 2
    /\ result.rows[1] # result.rows[2]

RECURSIVE Windows(_)
\* The windows of the matched rows from the n-th on, one after the other
Windows(n) ==
    IF n > Len(trace) THEN <<>>
    ELSE (IF n \in Matched THEN WindowOf(n) ELSE <<>>) \o Windows(n + 1)

\* C25: with more than one row matching, the query returns the window of
\* every matched row when allow_multiple is set, and fails as ambiguous when
\* it is not; with no row matching it fails as no-row.
C25_WindowPerMatch ==
    pc # "query_trace_db" =>
        /\ Matched = {} => result.raised = "ValueError: No row found"
        /\ (Cardinality(Matched) > 1 /\ ~query.allow_multiple) =>
              result.raised = "ValueError: Query resulted in multiple ROWIDs"
        /\ (Cardinality(Matched) > 1 /\ query.allow_multiple) =>
              /\ result.raised = "None"
              /\ result.rows = Windows(1)

-----------------------------------------------------------------------------
(* Preprocessor.prune_candidates *)

\* The assembly sources of the driver: two files of two instructions each
PruneSources ==
    << FileOf(<< <<"n">>, <<"n">> >>, TRUE),
       FileOf(<< <<"n">>, <<TAB, "a", SP, SP, "x">> >>, TRUE) >>

\* path_to_id of the driver: asm_id by file name; asm_id counts from 1 here
mapping == [asm_file \in {"a.S", "b.S"} |-> IF asm_file = "a.S" THEN 1 ELSE 2]

\* The settings' zoix_to_trace: trace column by fault attribute
zoix2trace == [PC_ID |-> "PC", sim_time |-> "Time"]

\* A fault is modelled by its fault_attributes: <<>> when it has none
Faults ==
    {<<>>} \cup {<<[PC_ID |-> "00000004", sim_time |-> "10ns"]>>,
                 <<[PC_ID |-> "0000004c", sim_time |-> "60ns"]>>}

FaultLists == {<<>>} \cup {<<f>> : f \in Faults} \cup {<<f, g>> : f, g \in Faults}

\* What addr2line returns for an address: the file name and the 1-based
\* line, (None, None) being <<"None", 0>>
FileLines == {<<"None", 0>>, <<"a.S", 1>>, <<"b.S", 1>>, <<"b.S", 2>>, <<"crt0.S", 1>>}

Elfs == [ColumnValues["PC"] -> FileLines]

addr2line(elf_file, pc_address) == elf_file[pc_address]

RECURSIVE UniqueUpTo(_, _)
\* The list built by `if x not in l: l.append(x)` over the first n of list
UniqueUpTo(list, n) ==
    IF n = 0 THEN <<>>
    ELSE LET before == UniqueUpTo(list, n - 1)
         IN  IF list[n] \in Range(before) THEN before ELSE Append(before, list[n])

Unique(list) == UniqueUpTo(list, Len(list))

\* 1. Gather attribute pairs
Attributes(flist) ==
    LET with == SelectSeq(flist, LAMBDA fault : fault # <<>>)
        entry(fault) ==
            [col \in {zoix2trace[k] : k \in DOMAIN zoix2trace} |->
                fault[1][CHOOSE k \in DOMAIN zoix2trace : zoix2trace[k] = col]]
    IN  Unique([i \in 1..Len(with) |-> entry(with[i])])

\* 2. Query the database for PC windows, and flatten the list of them
Pcs(rows, flist) ==
    LET attributes == Attributes(flist)
        queried == [i \in 1..Len(attributes) |->
                       query_trace_db(rows, "PC", attributes[i], 4, FALSE)]
        found   == SelectSeq(queried, LAMBDA q : q.raised = "None")
        window(q) == [k \in 1..Len(q.rows) |-> q.rows[k][1]]
    IN  Flatten(Unique([i \in 1..Len(found) |-> window(found[i])]))

KeepsTheHit(hs, entry, asm_id, lineno) ==
    entry[1] = asm_id /\ hs[entry[1]].code[entry[2]].lineno = lineno - 1

\* The filter over candidates: whether the entry stays
Keeps(hs, entry, asm_id, lineno) ==
    ~(entry[1] = asm_id /\ hs[entry[1]].code[entry[2]].lineno = lineno - 1)

RECURSIVE Filter(_, _, _, _, _)
\* 3. Find the asm source and line numbers and filter out the candidates:
\* the candidates and the list `removed` after the loop over pcs
Filter(hs, elf_file, pcs, candidates, lines) ==
    IF pcs = <<>> THEN [candidates |-> candidates, removed |-> lines]
    ELSE LET found    == addr2line(elf_file, Head(pcs))
             asm_file == found[1]
             lineno   == found[2]
             after    == SelectSeq(candidates,
                                   LAMBDA entry : Keeps(hs, entry, mapping[asm_file], lineno))
         IN  IF lineno \in Range(lines) THEN Filter(hs, elf_file, Tail(pcs), candidates, lines)
             ELSE IF asm_file \notin DOMAIN mapping
             THEN Filter(hs, elf_file, Tail(pcs), candidates, lines)
             ELSE Filter(hs, elf_file, Tail(pcs), after,
                         IF Len(candidates) # Len(after) THEN Append(lines, lineno) ELSE lines)

\* prune_candidates(all_instructions, path_to_id, chunksize) is called, as
\* main.py calls it after pre_run
InitPrune ==
    /\ pc = "prune_candidates"
    /\ handlers = [asm_id \in 1..Len(PruneSources) |-> AssemblyHandler(PruneSources[asm_id], 2)]
    /\ all_instructions = FlattenInstructions(handlers)
    /\ trace \in Traces
    /\ fault_list \in FaultLists
    /\ elf \in Elfs
    /\ query \in [chunksize : ChunkSizes]
    /\ result = <<>>
    /\ removed_lines = <<>>
    /\ instructions = 0
    /\ executed = <<>>
    /\ exit_success = FALSE
    /\ tat_success = FALSE
    /\ tat_value = <<>>
    /\ simulation_status = "None"
    /\ pops = FALSE
    /\ hist = NoHist
    /\ zoix_compilation_args = FALSE
    /\ initial_stl_stats = <<>>
    /\ old_stl_stats = <<>>
    /\ iteration_stats = <<>>
    /\ stats = <<>>
    /\ trial = NoTrial
    /\ a1xx_settings = <<>>
    /\ all_code_chunks = <<>>
    /\ block_i = 0
    /\ candidate_codelines = <<>>
    /\ trials_left = 0
    /\ NoToolsBut("Preprocessor")

\* prune_candidates returns the chunks of the candidates left, which are
\* modified in place; max() in get_chunked_codelines raises ValueError when
\* no candidate is left
PruneReturns ==
    LET filtered == Filter(handlers, elf, Pcs(trace, fault_list), all_instructions, <<>>)
    IN  /\ pc = "prune_candidates"
        /\ all_instructions' = filtered.candidates
        /\ removed_lines' = filtered.removed
        /\ IF filtered.candidates = <<>>
           THEN /\ result' = [raised |-> "ValueError: max() arg is an empty sequence",
                              rows |-> <<>>]
                /\ pc' = "prune_raised"
           ELSE /\ result' = [raised |-> "None",
                              rows |-> get_chunked_codelines(filtered.candidates,
                                                             query.chunksize)]
                /\ pc' = "prune_returned"
        /\ UNCHANGED <<hvars, zoix_compilation_args, initial_stl_stats, old_stl_stats,
                       iteration_stats, stats, trial, a1xx_settings, all_code_chunks, block_i,
                       candidate_codelines, trials_left, zvars, trace, query, fault_list, elf>>
        /\ ToolsUnchangedBut("Preprocessor")

NextPrune == PruneReturns

SpecPrune == InitPrune /\ [][NextPrune]_vars

-----------------------------------------------------------------------------
(* Properties of prune_candidates *)

\* The line number of the Codeline of a candidate
LinenoOf(entry) == handlers[entry[1]].code[entry[2]].lineno

\* The candidate is a relevant pair: an address of the window of a fault
\* resolves to its line of its file
Relevant(entry) ==
    \E p \in Range(Pcs(trace, fault_list)) :
        LET found == addr2line(elf, p)
        IN  /\ found[1] \in DOMAIN mapping
            /\ mapping[found[1]] = entry[1]
            /\ found[2] - 1 = LinenoOf(entry)

\* The candidates the driver was constructed with
Candidates == Range(FlattenInstructions(handlers))

\* C26 as stated: the candidates that prune_candidates leaves are exactly
\* the relevant ones.
C26_RelevantRetained ==
    pc # "prune_candidates" =>
        Range(all_instructions) = {entry \in Candidates : Relevant(entry)}

\* C26, amended: prune_candidates removes relevant candidates and nothing
\* else, in place, and returns the candidates left as chunks per file; a
\* relevant candidate is left only when a candidate of the same line number
\* of another file was removed.
C26_RelevantRemoved ==
    pc # "prune_candidates" =>
        LET left == Range(all_instructions)
        IN  /\ all_instructions =
                  SelectSeq(FlattenInstructions(handlers), LAMBDA entry : entry \in left)
            /\ \A entry \in Candidates : ~Relevant(entry) => entry \in left
            /\ \A entry \in Candidates \ left : Relevant(entry)
            /\ \A entry \in left :
                  Relevant(entry) =>
                      \E other \in Candidates \ left :
                          other[1] # entry[1] /\ LinenoOf(other) = LinenoOf(entry)
            /\ pc = "prune_returned" =>
                  /\ \A i \in DOMAIN result.rows : Len(result.rows[i].block) <= query.chunksize
                  /\ Flatten([i \in DOMAIN result.rows |->
                                [j \in DOMAIN result.rows[i].block |->
                                    <<result.rows[i].asm_id, result.rows[i].block[j]>>]])
                        = all_instructions
            /\ pc = "prune_raised" <=> left = {}

\* the window of a fault resolves to line 2 of b.S only: that candidate is
\* removed and the other three are returned, in two chunks
C26_Witness ==
    /\ pc = "prune_returned"
    /\ Cardinality({entry \in Candidates : Relevant(entry)}) = 1
    /\ removed_lines = <<2>>
    /\ Len(all_instructions) = 3
    /\ Len(result.rows) = 2

\* C27: relevant lines are told apart by file and line: a candidate whose
\* line of its file is hit is removed, whether or not the line of the same
\* number of another file was hit before, so no relevant candidate is left.
C27_DedupePerFileAndLine ==
    pc # "prune_candidates" => \A entry \in Range(all_instructions) : ~Relevant(entry)

-----------------------------------------------------------------------------
(* FaultReportFaultListTransformer *)

MaxFaults == 3

\* The 2-letter fault statuses of the lines, "--" marking a fault that is
\* equivalent to the prime fault listed above it
FaultStatuses == {"ON", "NA", "--"}

\* Fault.__init__ with the parts of a line. A Fault is known by its index in
\* `faults`; its equivalent_to is such an index, or 0 for None
Fault(fault_status) ==
    [fault_status |-> fault_status, equivalent_faults |-> 1, equivalent_to |-> 0]

EquivalentToNone(prime, prev_prime) == 0

\* What `fault` sets equivalent_to to
EquivalentTo(prime, prev_prime) == IF ~prime THEN prev_prime ELSE 0

\* A FaultList section is parsed by a parser that the factory has made: the
\* transformer is a new object, with the attributes of its class
InitFaultList ==
    /\ pc = "fault_status"
    /\ statuses \in UNION {[1..n -> FaultStatuses] : n \in 0..MaxFaults}
    /\ faults = <<>>
    /\ fault_parts = <<>>
    /\ _prev_fstatus = ""
    /\ _prev_prime = 0
    /\ _is_prime = FALSE
    /\ instructions = 0
    /\ executed = <<>>
    /\ exit_success = FALSE
    /\ tat_success = FALSE
    /\ tat_value = <<>>
    /\ simulation_status = "None"
    /\ handlers = <<>>
    /\ pops = FALSE
    /\ hist = NoHist
    /\ zoix_compilation_args = FALSE
    /\ all_instructions = <<>>
    /\ initial_stl_stats = <<>>
    /\ old_stl_stats = <<>>
    /\ iteration_stats = <<>>
    /\ stats = <<>>
    /\ trial = NoTrial
    /\ a1xx_settings = <<>>
    /\ all_code_chunks = <<>>
    /\ block_i = 0
    /\ candidate_codelines = <<>>
    /\ trials_left = 0
    /\ NoToolsBut("FaultList")

\* The callback fault_status, for the status of the next line
fault_status ==
    LET status == statuses[Len(faults) + 1]
    IN  /\ pc = "fault_status"
        /\ Len(faults) < Len(statuses)
        /\ IF status = "--"
           THEN /\ fault_parts' = <<"fault_status", _prev_fstatus>>
                /\ UNCHANGED <<_is_prime, _prev_fstatus>>
           ELSE /\ _is_prime' = TRUE
                /\ _prev_fstatus' = status
                /\ fault_parts' = <<"fault_status", status>>
        /\ pc' = "fault"
        /\ UNCHANGED <<idle, instructions, executed, statuses, faults, _prev_prime>>
        /\ ToolsUnchangedBut("FaultList")

\* The callback fault, for the line whose parts have been reduced; it raises
\* AttributeError when _prev_prime is None
fault ==
    /\ pc = "fault"
    /\ IF ~_is_prime /\ _prev_prime = 0
       THEN /\ pc' = "AttributeError"
            /\ UNCHANGED <<faults, _is_prime, _prev_prime>>
       ELSE /\ pc' = "fault_status"
            /\ faults' =
                  Append(IF ~_is_prime
                         THEN [faults EXCEPT ![_prev_prime].equivalent_faults = @ + 1]
                         ELSE faults,
                         [Fault(fault_parts[2]) EXCEPT
                             !.equivalent_to = EquivalentTo(_is_prime, _prev_prime)])
            /\ _is_prime' = FALSE
            /\ _prev_prime' = IF ~_is_prime THEN _prev_prime ELSE Len(faults')
    /\ fault_parts' = <<>>
    /\ UNCHANGED <<idle, instructions, executed, statuses, _prev_fstatus>>
    /\ ToolsUnchangedBut("FaultList")

\* The callback start: parsing is finished
start ==
    /\ pc = "fault_status"
    /\ Len(faults) = Len(statuses)
    /\ pc' = "parsed"
    /\ UNCHANGED <<idle, instructions, executed, lvars>>
    /\ ToolsUnchangedBut("FaultList")

NextFaultList == fault_status \/ fault \/ start

SpecFaultList == InitFaultList /\ [][NextFaultList]_vars

-----------------------------------------------------------------------------
(* Properties of the FaultList transformer *)

\* The faults that are equivalent to the fault p
EquivalentsOf(p) == {f \in DOMAIN faults : faults[f].equivalent_to = p}

\* C28: after a FaultList has been parsed, every fault is prime or equivalent
\* to a prime fault; the fault of a "--" line is equivalent to the fault of
\* the nearest line above it that is not a "--" line, and has its status;
\* the equivalent_faults of a prime fault is one more than the number of
\* faults equivalent to it.
C28_EquivalenceForest ==
    pc = "parsed" =>
        /\ Len(faults) = Len(statuses)
        /\ \A f \in DOMAIN faults :
              \/ faults[f].equivalent_to = 0
              \/ faults[faults[f].equivalent_to].equivalent_to = 0
        /\ \A f \in DOMAIN faults :
              IF statuses[f] = "--"
              THEN LET p == faults[f].equivalent_to
                   IN  /\ p \in 1..(f - 1)
                       /\ statuses[p] # "--"
                       /\ \A g \in (p + 1)..(f - 1) : statuses[g] = "--"
                       /\ faults[f].fault_status = statuses[p]
              ELSE /\ faults[f].equivalent_to = 0
                   /\ faults[f].fault_status = statuses[f]
        /\ \A p \in DOMAIN faults :
              faults[p].equivalent_to = 0 =>
                  faults[p].equivalent_faults = 1 + Cardinality(EquivalentsOf(p))

\* a prime fault with one equivalent fault, followed by another prime fault
C28_Witness ==
    /\ pc = "parsed"
    /\ statuses = <<"ON", "--", "NA">>
    /\ faults[1].equivalent_faults = 2
    /\ faults[2].equivalent_to = 1
    /\ faults[3].equivalent_to = 0

-----------------------------------------------------------------------------
(* TxtFaultReport.extract *)

MaxReport == 3

\* How many opening, and how many closing, braces a line can hold
Braces == 0..2

\* A line of the report: whether it is empty, whether the name of the
\* section occurs in it, and the braces in it
BlankLine == [blank |-> TRUE, name |-> FALSE, opening |-> 0, closing |-> 0]

ReportLines == {BlankLine} \cup [blank : {FALSE}, name : BOOLEAN, opening : Braces, closing : Braces]

BraceStarts(line) == line.opening > 0

\* `section in line and "{" in line`
SectionStarts(line) == line.name /\ line.opening > 0

\* brackets_cc after a line of the section
Brackets(brackets_cc, line) ==
    brackets_cc + (IF line.opening > 0 THEN 1 ELSE 0) - (IF line.closing > 0 THEN 1 ELSE 0)

RECURSIVE ExtractFrom(_, _, _, _)
\* The loop over the lines: extracted_lines after it
ExtractFrom(lines, section_found, brackets_cc, extracted_lines) ==
    IF lines = <<>> THEN extracted_lines
    ELSE LET line  == Head(lines)
             found == section_found \/ SectionStarts(line)
             cc    == Brackets(brackets_cc, line)
         IN  IF line.blank THEN ExtractFrom(Tail(lines), section_found, brackets_cc, extracted_lines)
             ELSE IF ~found THEN ExtractFrom(Tail(lines), found, brackets_cc, extracted_lines)
             ELSE IF cc = 0 THEN Append(extracted_lines, line)
             ELSE ExtractFrom(Tail(lines), found, cc, Append(extracted_lines, line))

\* '\n'.join(extracted_lines): a str, the empty one for no lines
join(extracted_lines) == <<"str", extracted_lines>>

\* A report has been read, and extract(section) is called
InitExtract ==
    /\ pc = "extract"
    /\ fault_report \in UNION {[1..n -> ReportLines] : n \in 0..MaxReport}
    /\ extracted = <<>>
    /\ instructions = 0
    /\ executed = <<>>
    /\ exit_success = FALSE
    /\ tat_success = FALSE
    /\ tat_value = <<>>
    /\ simulation_status = "None"
    /\ handlers = <<>>
    /\ pops = FALSE
    /\ hist = NoHist
    /\ zoix_compilation_args = FALSE
    /\ all_instructions = <<>>
    /\ initial_stl_stats = <<>>
    /\ old_stl_stats = <<>>
    /\ iteration_stats = <<>>
    /\ stats = <<>>
    /\ trial = NoTrial
    /\ a1xx_settings = <<>>
    /\ all_code_chunks = <<>>
    /\ block_i = 0
    /\ candidate_codelines = <<>>
    /\ trials_left = 0
    /\ NoToolsBut("TxtFaultReport")

ExtractReturns ==
    /\ pc = "extract"
    /\ extracted' = join(ExtractFrom(fault_report, FALSE, 0, <<>>))
    /\ pc' = "extract_returned"
    /\ UNCHANGED <<idle, instructions, executed, fault_report>>
    /\ ToolsUnchangedBut("TxtFaultReport")

NextExtract == ExtractReturns

SpecExtract == InitExtract /\ [][NextExtract]_vars

-----------------------------------------------------------------------------
(* Properties of extract *)

\* The section occurs in the report: its name is on a line with a `{`
SectionOccurs == \E i \in DOMAIN fault_report : fault_report[i].name /\ fault_report[i].opening > 0

\* C29 as stated: for a section that does not occur in the report, extract
\* returns None.
C29_MissingIsNone ==
    (pc = "extract_returned" /\ ~SectionOccurs) => extracted = None

\* C29, amended: for a section that does not occur in the report, extract
\* returns the empty string, which the text of a section that occurs never
\* is.
C29_MissingIsEmpty ==
    pc = "extract_returned" =>
        /\ extracted[1] = "str"
        /\ ~SectionOccurs <=> extracted[2] = <<>>

\* the report has lines with braces, but none with the name of the section
C29_Witness ==
    /\ pc = "extract_returned"
    /\ ~SectionOccurs
    /\ \E i \in DOMAIN fault_report : fault_report[i].opening > 0
    /\ extracted = <<"str", <<>>>>

\* The first line of the section
FirstLine == CHOOSE i \in DOMAIN fault_report :
                /\ fault_report[i].name /\ fault_report[i].opening > 0
                /\ \A j \in 1..(i - 1) : ~(fault_report[j].name /\ fault_report[j].opening > 0)

RECURSIVE Depth(_)
\* The opening braces minus the closing braces of the lines FirstLine ... i
Depth(i) ==
    IF i < FirstLine THEN 0
    ELSE Depth(i - 1) + fault_report[i].opening - fault_report[i].closing

\* The line on which the depth is back at zero, or the last line of the
\* report when it never is
LastLine ==
    IF \E i \in FirstLine..Len(fault_report) : Depth(i) <= 0
    THEN CHOOSE i \in FirstLine..Len(fault_report) :
            Depth(i) <= 0 /\ \A j \in FirstLine..(i - 1) : Depth(j) > 0
    ELSE Len(fault_report)

\* C30: the text of a section that occurs is that of the lines from the
\* first one with the name of the section and a `{`, to the one on which as
\* many braces have been closed as opened since then; empty lines are left
\* out.
C30_UpToBalancedBrace ==
    (pc = "extract_returned" /\ SectionOccurs) =>
        extracted[2] = SelectSeq(SubSeq(fault_report, FirstLine, LastLine),
                                 LAMBDA line : ~line.blank)

-----------------------------------------------------------------------------
(* CSVFaultReport.compute_flist_coverage (zoix.py) *)

\* The fault statuses of the faults of a fault list
CoverageStatuses == {"DD", "NA"}

\* The two-uppercase-letter names re.findall(r"[A-Z]{2}", ...) finds
TwoUppercase == {"DD", "NA", "DA"}

\* The lines of a StatusGroups section, each as re.findall(r"([A-Z]{2})", line)
\* gives it: the group, then its statuses
StatusGroupLines == {<<"DA", "DD">>, <<"NA", "DD", "NA">>}

\* The fault format configuration files: with or without a StatusGroups
\* segment, and the non-empty lines of the segment
SffFiles ==
    {[StatusGroups |-> FALSE, lines |-> <<>>]} \cup
    {[StatusGroups |-> TRUE, lines |-> lines] :
        lines \in {<<>>, << <<"DA", "DD">> >>, << <<"NA", "DD", "NA">> >>,
                   << <<"DA", "DD">>, <<"NA", "DD", "NA">> >>}}

\* The tokens of a formula: integer literals, names, operators
IntegerLiterals == {"2"}
Names == TwoUppercase \cup {"dd"}
Operators == {"+", "-", "*", "/", "**", "%"}

\* The formulas: an operand, or two operands and an operator
Formulas ==
    {<<a>> : a \in IntegerLiterals \cup Names} \cup
    {<<a, op, b>> : a \in IntegerLiterals \cup Names, op \in Operators,
                    b \in IntegerLiterals \cup Names}

\* for fault in fault_list: fault_statuses[status] += 1
fault_statuses(flist) ==
    [status \in {flist[i] : i \in DOMAIN flist} |->
        Cardinality({i \in DOMAIN flist : flist[i] = status})]

\* for status in statuses: if status in fault_statuses: group += fault_statuses[status]
RECURSIVE GroupCount(_, _)
GroupCount(group_statuses, counts) ==
    IF group_statuses = <<>> THEN 0
    ELSE (IF Head(group_statuses) \in DOMAIN counts THEN counts[Head(group_statuses)] ELSE 0)
         + GroupCount(Tail(group_statuses), counts)

\* status_groups[group] of the last line that names the group
status_groups(lines, counts) ==
    [group \in {lines[i][1] : i \in DOMAIN lines} |->
        LET last == CHOOSE i \in DOMAIN lines :
                        /\ lines[i][1] = group
                        /\ \A j \in DOMAIN lines : lines[j][1] = group => j <= i
        IN  GroupCount(Tail(lines[last]), counts)]

\* The names of the formula that are neither a status nor a group, set to 0
non_present_statuses(formula, counts, groups) ==
    [status \in ({formula[i] : i \in DOMAIN formula} \cap TwoUppercase)
                    \ (DOMAIN counts \cup DOMAIN groups) |-> 0]

\* {**fault_statuses, **status_groups, **non_present_statuses}: the later
\* dictionary decides
Globals(formula, counts, groups) ==
    non_present_statuses(formula, counts, groups) @@ groups @@ counts

\* What a call returns or raises; evaluated: eval() was given the formula
Raises(exception, was_evaluated) ==
    [raised |-> exception, value |-> <<>>, evaluated |-> was_evaluated]

Returns(value) == [raised |-> "None", value |-> value, evaluated |-> TRUE]

RECURSIVE Power(_, _)
Power(a, b) == IF b = 0 THEN 1 ELSE a * Power(a, b - 1)

\* precision: the number of decimals of the coverage
precision == 4

\* round(a / b, precision), in units of 10 ** -precision. No quotient of the
\* model is half way between two of them
RoundedQuotient(a, b) == (2 * a * Power(10, precision) + b) \div (2 * b)

\* eval of a name or an integer literal under the globals
Operand(token, globals) ==
    IF token \in IntegerLiterals THEN 2
    ELSE globals[token]

Defined(token, globals) == token \in IntegerLiterals \/ token \in DOMAIN globals

\* round(eval(formula, globals), precision): Python evaluates the expression
\* whatever its tokens are; round of an int is that int
eval(formula, globals) ==
    IF \E i \in {1, Len(formula)} : ~Defined(formula[i], globals)
    THEN Raises("NameError", TRUE)
    ELSE IF Len(formula) = 1 THEN Returns(<<"int", Operand(formula[1], globals)>>)
    ELSE LET a == Operand(formula[1], globals)
             b == Operand(formula[3], globals)
             op == formula[2]
         IN  CASE op = "+" -> Returns(<<"int", a + b>>)
               [] op = "-" -> Returns(<<"int", a - b>>)
               [] op = "*" -> Returns(<<"int", a * b>>)
               [] op = "**" -> Returns(<<"int", Power(a, b)>>)
               [] op = "/" -> IF b = 0 THEN Raises("ZeroDivisionError", TRUE)
                              ELSE Returns(<<"float", RoundedQuotient(a, b)>>)
               [] op = "%" -> IF b = 0 THEN Raises("ZeroDivisionError", TRUE)
                              ELSE Returns(<<"int", a % b>>)

compute_flist_coverage(flist, sff_file, formula) ==
    IF ~sff_file.StatusGroups THEN Raises("SystemExit", FALSE)
    ELSE LET counts == fault_statuses(flist)
             groups == status_groups(sff_file.lines, counts)
         IN  eval(formula, Globals(formula, counts, groups))

\* compute_flist_coverage is called on a fault list, a configuration file
\* and a formula
InitCoverage ==
    /\ pc = "compute_flist_coverage"
    /\ coverage_call \in
          [fault_list : UNION {[1..n -> CoverageStatuses] : n \in 0..MaxFaults},
           sff_file : SffFiles,
           formula : Formulas]
    /\ coverage_result = <<>>
    /\ instructions = 0
    /\ executed = <<>>
    /\ exit_success = FALSE
    /\ tat_success = FALSE
    /\ tat_value = <<>>
    /\ simulation_status = "None"
    /\ handlers = <<>>
    /\ pops = FALSE
    /\ hist = NoHist
    /\ zoix_compilation_args = FALSE
    /\ all_instructions = <<>>
    /\ initial_stl_stats = <<>>
    /\ old_stl_stats = <<>>
    /\ iteration_stats = <<>>
    /\ stats = <<>>
    /\ trial = NoTrial
    /\ a1xx_settings = <<>>
    /\ all_code_chunks = <<>>
    /\ block_i = 0
    /\ candidate_codelines = <<>>
    /\ trials_left = 0
    /\ NoToolsBut("compute_flist_coverage")

CoverageReturns ==
    /\ pc = "compute_flist_coverage"
    /\ coverage_result' = compute_flist_coverage(coverage_call.fault_list,
                                                 coverage_call.sff_file,
                                                 coverage_call.formula)
    /\ pc' = "coverage_returned"
    /\ UNCHANGED <<idle, instructions, executed, coverage_call>>
    /\ ToolsUnchangedBut("compute_flist_coverage")

NextCoverage == CoverageReturns

SpecCoverage == InitCoverage /\ [][NextCoverage]_vars

-----------------------------------------------------------------------------
(* Properties of compute_flist_coverage *)

\* The tokens the documented formulas are made of
FormulaTokens == {"+", "-", "*", "/", "**", "(", ")"} \cup IntegerLiterals \cup TwoUppercase

HasOtherToken(formula) == \E i \in DOMAIN formula : formula[i] \notin FormulaTokens

\* C31: a formula that contains a token other than + - * / ** ( ), a
\* non-negative integer or a two-uppercase-letter identifier is rejected: it
\* is never given to the evaluation, and the call yields an error instead of
\* a coverage value.
C31_OtherTokensRejected ==
    (pc = "coverage_returned" /\ HasOtherToken(coverage_call.formula))
        => /\ ~coverage_result.evaluated
           /\ coverage_result.raised # "None"

-----------------------------------------------------------------------------
(* Properties of the A1xx driver: the configured policies *)

\* The policies run() knows
A1xxPolicies == {"B", "F", "R"}
CompactionPolicies == {"Maximize", "Threshold"}

\* The stages of a trial that follow a simulator command of that trial
SimulatedStages == {"hdl_compile", "lsim_exception", "lsim", "fsim", "evaluate",
                    "compaction_policy"}

\* C32: when the configured a1xx_policy is not one of B, F, R, or the
\* compaction_policy is not one of Maximize, Threshold, the run ends with
\* exit(1) before any simulator command is executed: no trial gets as far as
\* a simulation, and the run never completes.
C32_UnknownPolicyExitsFirst ==
    (\/ a1xx_settings.a1xx_policy \notin A1xxPolicies
     \/ a1xx_settings.compaction_policy \notin CompactionPolicies)
        => /\ trial.stage \notin SimulatedStages
           /\ pc # "done"

-----------------------------------------------------------------------------
(* AssemblyHandler.__init__ and the Codelines it creates *)

\* The operands of `codeline -= other` and `codeline += other`
Others == 0..MaxLines

\* AssemblyHandler(isa, assembly_source, chunksize) is called
InitConstruction ==
    /\ pc = "AssemblyHandler"
    /\ init_args \in [assembly_source : Sources, chunksize : ChunkSizes]
    /\ handler = <<>>
    /\ instructions = 0
    /\ executed = <<>>
    /\ exit_success = FALSE
    /\ tat_success = FALSE
    /\ tat_value = <<>>
    /\ simulation_status = "None"
    /\ handlers = <<>>
    /\ pops = FALSE
    /\ hist = NoHist
    /\ zoix_compilation_args = FALSE
    /\ all_instructions = <<>>
    /\ initial_stl_stats = <<>>
    /\ old_stl_stats = <<>>
    /\ iteration_stats = <<>>
    /\ stats = <<>>
    /\ trial = NoTrial
    /\ a1xx_settings = <<>>
    /\ all_code_chunks = <<>>
    /\ block_i = 0
    /\ candidate_codelines = <<>>
    /\ trials_left = 0
    /\ NoToolsBut("AssemblyHandler")

\* __init__ returns
Constructs ==
    /\ pc = "AssemblyHandler"
    /\ handler' = AssemblyHandler(init_args.assembly_source, init_args.chunksize)
    /\ pc' = "constructed"
    /\ UNCHANGED <<idle, instructions, executed, init_args>>
    /\ ToolsUnchangedBut("AssemblyHandler")

\* `codeline -= other` on a Codeline of the handler
CodelineIsub ==
    /\ pc = "constructed"
    /\ \E codeline \in DOMAIN handler.code, other \in Others :
          handler' = [handler EXCEPT !.code[codeline].lineno = isub(@, other)]
    /\ pc' = "isub"
    /\ UNCHANGED <<idle, instructions, executed, init_args>>
    /\ ToolsUnchangedBut("AssemblyHandler")

\* `codeline += other` on a Codeline of the handler
CodelineIadd ==
    /\ pc = "constructed"
    /\ \E codeline \in DOMAIN handler.code, other \in Others :
          handler' = [handler EXCEPT !.code[codeline].lineno = iadd(@, other)]
    /\ pc' = "iadd"
    /\ UNCHANGED <<idle, instructions, executed, init_args>>
    /\ ToolsUnchangedBut("AssemblyHandler")

NextConstruction ==
    \/ Constructs
    \/ CodelineIsub
    \/ CodelineIadd

SpecConstruction == InitConstruction /\ [][NextConstruction]_vars

-----------------------------------------------------------------------------
(* Properties of the constructor and of Codeline *)

\* The lines of the source file whose first token is a mnemonic of the ISA:
\* their indices in the file, counted from 1, in file order
InstructionLines(content) ==
    LET file_lines == SplitLines(content)
    IN  SelectIdx(Len(file_lines), 1,
                  [i \in 1..Len(file_lines) |-> FirstToken(file_lines[i]) \in mnemonics])

\* C33: after construction, candidates holds exactly the instruction lines of
\* the source (first token in the mnemonic set of the ISA), in file order,
\* each with its 0-based line number in the file (blank and non-instruction
\* lines count), in consecutive chunks of exactly chunksize Codelines except
\* possibly the last, and no chunk is empty.
C33_CandidatesOfTheSource ==
    pc = "constructed" =>
        LET insn == InstructionLines(init_args.assembly_source)
            flat == Flatten(handler.candidates)
            n    == Len(handler.candidates)
        IN  /\ Len(flat) = Len(insn)
            /\ \A j \in 1..Len(flat) :
                  /\ handler.code[flat[j]].lineno = insn[j] - 1
                  /\ handler.code[flat[j]].valid_insn
            /\ \A c \in 1..n :
                  /\ Len(handler.candidates[c]) >= 1
                  /\ Len(handler.candidates[c]) <= init_args.chunksize
                  /\ c < n => Len(handler.candidates[c]) = init_args.chunksize

\* A source with a blank line and a non-instruction line before its
\* instructions, which do not fill the last chunk
C33_Witness ==
    /\ pc = "constructed"
    /\ init_args.chunksize = 2
    /\ Len(handler.candidates) = 1
    /\ Len(handler.candidates[1]) = 1
    /\ handler.code[handler.candidates[1][1]].lineno = 2
    /\ Len(handler.code) = 2

\* C34: for a Codeline with lineno >= 0 and an integer other >= 0, after
\* `codeline -= other` the lineno is >= 0: the subtraction saturates at 0.
C34_IsubSaturates ==
    pc = "isub" => \A j \in DOMAIN handler.code : handler.code[j].lineno >= 0

-----------------------------------------------------------------------------
(* Properties of the handler: restore on an empty changelog, and sequences
   of removals followed by as many restores *)

\* C35: restore() on a handler whose changelog is empty is a no-op: the file
\* on disk, the line number of every candidate, candidates and the changelog
\* are as they were before the call.
C35_RestoreOfNothing ==
    hist.op = "restore_empty" =>
        /\ H1.asm_file = hist.pre.asm_file
        /\ H1.code = hist.pre.code
        /\ H1.candidates = hist.pre.candidates
        /\ H1.asm_file_changelog = <<>>

\* restore() is called with an empty changelog on a handler that has
\* candidates in its file
C35_Witness ==
    /\ hist.op = "restore_empty"
    /\ hist.pre.asm_file_changelog = <<>>
    /\ Len(get_code(H1)) >= 2
    /\ H1.asm_file # <<>>


\* The lines of a file, each normalized as __init__ normalizes it
NormalizedLines(content) ==
    LET file_lines == SplitLines(content)
    IN  [i \in 1..Len(file_lines) |-> Normalize(file_lines[i])]

\* n removes have been followed by n restores
RemovedAndRestored(n) == hist.seq = <<n, n>>

\* C36: after n >= 1 successive removes of distinct candidates, each at its
\* then-current line number, followed by n successive restores, the lines of
\* the file on disk (compared after per-line whitespace normalization) are
\* the original lines in the original order, both when the removed Codelines
\* are still elements of candidates and when they were popped beforehand.
C36_RestoresUndoRemoves ==
    \A n \in 1..MaxLines :
        RemovedAndRestored(n) => NormalizedLines(H1.asm_file) = NormalizedLines(hist.orig)

\* The same, for removes of Codelines that were popped from candidates
PoppedRestoresUndoRemoves ==
    \A n \in 1..MaxLines :
        (pops /\ RemovedAndRestored(n))
            => NormalizedLines(H1.asm_file) = NormalizedLines(hist.orig)


\* The Codelines of a handler, in the order of the source, but for those of
\* the changelog: their data
WithoutChangelog(H) ==
    LET kept == SelectIdx(Len(H.code), 1,
                          [id \in 1..Len(H.code) |-> id \notin Range(H.asm_file_changelog)])
    IN  [j \in 1..Len(kept) |-> H.code[kept[j]].data]

\* The lines of the file of a handler that are not blank, normalized
NonBlankLines(H) ==
    LET all  == NormalizedLines(H.asm_file)
        kept == SelectIdx(Len(all), 1, [i \in 1..Len(all) |-> all[i] # <<>>])
    IN  [j \in 1..Len(kept) |-> all[kept[j]]]

\* C37: when run() completes, the lines of every source file are the
\* original lines without the codelines of the accepted removals, which are
\* the codelines of the changelog, all others in their original order.
C37_FileIsOriginalWithoutAccepted ==
    pc = "done" =>
        \A h \in DOMAIN handlers : NonBlankLines(handlers[h]) = WithoutChangelog(handlers[h])

-----------------------------------------------------------------------------
(* Properties of the A1xx driver: the members of a block *)

Occurrences(s, d) == Cardinality({i \in DOMAIN s : s[i] = d})

\* The lines in the file of a handler are the lines of its Codelines that
\* are not in the changelog, each as often
HoldsAllButChangelog(H) ==
    \A d \in {H.code[id].data : id \in DOMAIN H.code} \cup Range(NonBlankLines(H)) :
        Occurrences(NonBlankLines(H), d) = Occurrences(WithoutChangelog(H), d)

\* The first m members of a block in the order of the policy
InPolicyOrder(policy, block, members) ==
    LET n == Len(block)
        m == Len(members)
    IN  /\ m <= n
        /\ Range(members) \subseteq Range(block)
        /\ \A i, j \in 1..m : i # j => members[i] # members[j]
        /\ policy = "B" => members = SubSeq(block, 1, m)
        /\ policy = "F" => members = [j \in 1..m |-> block[n - j + 1]]

\* C38: at the start of the k-th trial of a block of n members exactly the
\* first n-k+1 members in policy order are absent from the source file, and
\* they are the codelines of the removed_codelines field of that trial's
\* statistics; a REJECT restores exactly the most recently removed of them;
\* a block whose trials are all rejected ends with all its members back in
\* the file.
C38_MembersOutAndBack ==
    /\ pc = "trials" =>
          LET b == InitialBlocks[Len(InitialBlocks) - block_i]
              H == handlers[b.asm_id]
              k == Len(b.block) - trials_left + 1
          IN  /\ k \in 1..Len(b.block)
              /\ Len(candidate_codelines) = Len(b.block) - k + 1
              /\ InPolicyOrder(a1xx_settings.a1xx_policy, b.block, candidate_codelines)
              /\ Range(b.block) \cap Range(H.asm_file_changelog) = Range(candidate_codelines)
              /\ HoldsAllButChangelog(H)
    /\ (trial.n > 0 /\ pc \in {"trials", "block", "exit"}) =>
          iteration_stats.removed_codelines =
             <<"str", Strs(trial.pre[trial.asm_id], trial.removed)>>
    /\ (/\ trial.verdict = "Restore"
        /\ pc \in {"block", "done"} \/ (pc = "trials" /\ block_i = trial.block)) =>
          LET H    == handlers[trial.asm_id]
              log  == trial.pre[trial.asm_id].asm_file_changelog
              last == trial.removed[Len(trial.removed)]
          IN  /\ log # <<>> /\ log[Len(log)] = last
              /\ H.asm_file_changelog = SubSeq(log, 1, Len(log) - 1)
              /\ candidate_codelines = SubSeq(trial.removed, 1, Len(trial.removed) - 1)
              /\ Range(InitialBlock(trial.block)) \cap Range(H.asm_file_changelog)
                    = Range(candidate_codelines)
              /\ HoldsAllButChangelog(H)
              /\ Len(trial.removed) = 1 =>
                    Range(InitialBlock(trial.block)) \cap Range(H.asm_file_changelog) = {}

\* every trial of a block of two members, removed in random order, was
\* rejected
C38_Witness ==
    /\ pc = "block"
    /\ a1xx_settings.a1xx_policy = "R"
    /\ trial.verdict = "Restore"
    /\ Len(trial.removed) = 1
    /\ Len(InitialBlock(trial.block)) = 2
    /\ trial.removed[1] = InitialBlock(trial.block)[2]
    /\ handlers[trial.asm_id].asm_file_changelog = <<>>

-----------------------------------------------------------------------------
(* Properties of the drivers: the anchor over a whole run *)

\* C39: over a whole run the anchor changes only on ACCEPT, its TaT never
\* increases and its coverage never decreases; hence every accepted STL has
\* a TaT <= the TaT of the pre-run and a coverage >= the coverage of the
\* pre-run.
C39_AnchorMonotone ==
    [][/\ (old_stl_stats # <<>> /\ old_stl_stats' # old_stl_stats) =>
             /\ trial'.n = trial.n + 1
             /\ trial'.verdict = "Proceed"
       /\ (old_stl_stats # <<>> /\ old_stl_stats' # <<>>) =>
             /\ old_stl_stats'[1] <= old_stl_stats[1]
             /\ old_stl_stats'[2] >= old_stl_stats[2]
       /\ (trial'.n = trial.n + 1 /\ trial'.verdict = "Proceed") =>
             /\ trial'.new[1] <= initial_stl_stats[1]
             /\ trial'.new[2] >= initial_stl_stats[2]]_vars

\* a second trial is accepted, with a TaT below that of the anchor the first
\* accepted trial left
C39_Witness ==
    /\ trial.n >= 2
    /\ trial.verdict = "Proceed"
    /\ trial.old # initial_stl_stats
    /\ trial.new[1] < trial.old[1]
    /\ old_stl_stats[1] < initial_stl_stats[1]

-----------------------------------------------------------------------------
(* The test application time of pre_run and of the iterations of run *)

\* pre_run() is called
InitTat ==
    /\ pc = "pre_run"
    /\ pre_run_stats = <<>>
    /\ iteration_stl_stats = <<>>
    /\ instructions = 0
    /\ executed = <<>>
    /\ exit_success = FALSE
    /\ tat_success = FALSE
    /\ tat_value = <<>>
    /\ simulation_status = "None"
    /\ handlers = <<>>
    /\ pops = FALSE
    /\ hist = NoHist
    /\ zoix_compilation_args = FALSE
    /\ all_instructions = <<>>
    /\ initial_stl_stats = <<>>
    /\ old_stl_stats = <<>>
    /\ iteration_stats = <<>>
    /\ stats = <<>>
    /\ trial = NoTrial
    /\ a1xx_settings = <<>>
    /\ all_code_chunks = <<>>
    /\ block_i = 0
    /\ candidate_codelines = <<>>
    /\ trials_left = 0
    /\ NoToolsBut("pre_run")

\* Both simulations of pre_run succeed: return (test_application_time.pop(), coverage)
PreRunSimulates(test_application_time, coverage) ==
    /\ pc = "pre_run"
    /\ pre_run_stats' = [tat_value |-> test_application_time,
                         stl_stats |-> <<pop_last(test_application_time), coverage>>]
    /\ pc' = "iterations"
    /\ UNCHANGED <<idle, instructions, executed, iteration_stl_stats>>
    /\ ToolsUnchangedBut("pre_run")

\* Both simulations of an iteration succeed:
\* test_application_time = test_application_time.pop(0), then new_stl_stats
IterationSimulates(test_application_time, coverage) ==
    /\ pc = "iterations"
    /\ iteration_stl_stats' = [tat_value |-> test_application_time,
                               stl_stats |-> <<pop_first(test_application_time), coverage>>]
    /\ UNCHANGED <<idle, pc, instructions, executed, pre_run_stats>>
    /\ ToolsUnchangedBut("pre_run")

NextTat ==
    \/ \E test_application_time \in TatValues, coverage \in Covs :
          PreRunSimulates(test_application_time, coverage)
    \/ \E test_application_time \in TatValues, coverage \in Covs :
          IterationSimulates(test_application_time, coverage)

SpecTat == InitTat /\ [][NextTat]_vars

\* C40: the TaT of the pre-run anchor and the tat_new of every iteration are
\* selected from the values logic_simulate captured by the same rule: an
\* iteration whose logic simulation captured what the pre-run's captured has
\* tat_new == the TaT of the pre-run, also when the TaT pattern matched more
\* than one line of stdout.
C40_SameOutputSameTat ==
    (iteration_stl_stats # <<>> /\ iteration_stl_stats.tat_value = pre_run_stats.tat_value)
        => iteration_stl_stats.stl_stats[1] = pre_run_stats.stl_stats[1]

====
